---- MODULE Spec2Model ----
(***************************************************************************)
(* Student performance analytics (src/app.py): the SQLite-backed store     *)
(* adapter (insert with full-row duplicate check, load, delete, reset),    *)
(* the manual entry form and the bulk CSV import that feed it.             *)
(*                                                                         *)
(* Conventions of the model                                                *)
(*  - REAL columns (Marks, Average_Marks, Highest_Mark, Percentage) are    *)
(*    integers counting hundredths: 71.25 is 7125.                         *)
(*  - A Percentage value is a tagged record [t, n, s]: t = "num" (n is the *)
(*    number), "inf" (a division by zero of a non-zero mark) or "text"     *)
(*    (s is the text SQLite stores as is in the REAL column).              *)
(*  - rows/seq are what the one cached connection sees (its open           *)
(*    transaction included); cRows/cSeq are what is committed to the       *)
(*    database file.                                                       *)
(*  - assigned is the largest id handed out since the table was created    *)
(*    or last reset (0 when none was); last is the last operation and its  *)
(*    result.  Neither is read by the program.                             *)
(*  - schema is the sequence of the column names of table student_data in  *)
(*    the database file, <<>> while the file has no such table.            *)
(*  - sessions[s] is where the script run of browser session s stands in   *)
(*    insert_data_to_db when the steps of two sessions are followed one    *)
(*    by one: [pc, row].  Everywhere else a call of insert_data_to_db is   *)
(*    one step and the sessions are idle.                                  *)
(***************************************************************************)
EXTENDS Integers, Sequences, FiniteSets, TLC

VARIABLES rows, seq, cRows, cSeq, now, assigned, last, schema, sessions

vars == <<rows, seq, cRows, cSeq, now, assigned, last, schema, sessions>>

(***************************************************************************)
(* Bounds                                                                  *)
(***************************************************************************)
MaxId == 3
MaxClock == 1
MaxCsvRows == 3
MaxFileRows == 2
MaxOptRows == 2
MaxRecords == 3
MaxTrendRecords == 4
MaxFilterRows == 2
MaxLegacyRows == 2

(***************************************************************************)
(* Values                                                                  *)
(***************************************************************************)
Num(x) == [t |-> "num", n |-> x, s |-> ""]
Text(x) == [t |-> "text", n |-> 0, s |-> x]
Inf == [t |-> "inf", n |-> 0, s |-> ""]

KeyFields ==
    {"Name", "Course", "Month", "Date", "Subject", "Topic", "Rank",
     "Percentage", "Marks", "Average_Marks", "Highest_Mark", "Exam_Type"}

\* The twelve columns of a DataFrame row handed to insert_data_to_db.
DfRow(name, course, month, date, subject, topic, rank, pct, marks, avg, high, etype) ==
    [Name |-> name, Course |-> course, Month |-> month, Date |-> date,
     Subject |-> subject, Topic |-> topic, Rank |-> rank, Percentage |-> pct,
     Marks |-> marks, Average_Marks |-> avg, Highest_Mark |-> high,
     Exam_Type |-> etype]

\* The twelve key columns of a stored row (id and created_at left out).
KeyOf(r) == [f \in KeyFields |-> r[f]]

\* A variant whose VALUES tuple has Marks and Highest_Mark in each other's place.
StoredRowSwapped(id, row, ts) ==
    [id |-> id, created_at |-> ts, Name |-> row.Name, Course |-> row.Course,
     Month |-> row.Month, Date |-> row.Date, Subject |-> row.Subject,
     Topic |-> row.Topic, Rank |-> row.Rank, Percentage |-> row.Percentage,
     Marks |-> row.Highest_Mark, Average_Marks |-> row.Average_Marks,
     Highest_Mark |-> row.Marks, Exam_Type |-> row.Exam_Type]

\* A stored row: the DataFrame row plus the assigned id and timestamp.
StoredRow(id, row, ts) ==
    [id |-> id, created_at |-> ts, Name |-> row.Name, Course |-> row.Course,
     Month |-> row.Month, Date |-> row.Date, Subject |-> row.Subject,
     Topic |-> row.Topic, Rank |-> row.Rank, Percentage |-> row.Percentage,
     Marks |-> row.Marks, Average_Marks |-> row.Average_Marks,
     Highest_Mark |-> row.Highest_Mark, Exam_Type |-> row.Exam_Type]

MaxOf(S) == IF S = {} THEN 0 ELSE CHOOSE x \in S : \A y \in S : y <= x

\* id INTEGER PRIMARY KEY AUTOINCREMENT: one more than the largest id the
\* table ever held (sqlite_sequence), or than the largest id present.
NextId(tbl, sq) == MaxOf({sq} \cup {r.id : r \in tbl}) + 1

\* datetime.now() as a month name and as a date, when a form is shown or an
\* import runs.
CurrentMonth == "November"
CurrentDate == "03/11/2026"

(***************************************************************************)
(* insert_data_to_db                                                       *)
(***************************************************************************)
\* SELECT COUNT(*) ... WHERE Name=? AND Course=? AND ... AND Exam_Type=?
\* followed by exists > 0.  No bound value is ever None (the form supplies
\* every field, the import ends with fillna('')), so = is plain equality.
RowExistsOffByOne(tbl, row) ==
    Cardinality({r \in tbl : \A f \in KeyFields : r[f] = row[f]}) > 1

RowExists(tbl, row) ==
    Cardinality({r \in tbl : \A f \in KeyFields : r[f] = row[f]}) > 0

\* The for loop over df.iterrows(): check, then INSERT with datetime.now();
\* the first duplicate returns without commit, the end of the loop commits.
\* ticks[i] is how far the clock has moved on when row i is written.
RECURSIVE InsertLoop(_, _, _, _, _, _)
InsertLoop(tbl, sq, clk, df, ticks, i) ==
    IF i > Len(df)
    THEN [rows |-> tbl, seq |-> sq, now |-> clk, ok |-> TRUE,
          kind |-> "Added", written |-> Len(df), commit |-> TRUE]
    ELSE IF RowExists(tbl, df[i])
    THEN [rows |-> tbl, seq |-> sq, now |-> clk, ok |-> FALSE,
          kind |-> "DuplicateDetected", written |-> i - 1, commit |-> FALSE]
    ELSE LET id == NextId(tbl, sq)
             ts == clk + ticks[i]
         IN  InsertLoop(tbl \cup {StoredRow(id, df[i], ts)}, id, ts, df, ticks, i + 1)

\* A variant that rolls the batch back when it meets a duplicate.
insert_with_rollback(tbl, sq, clk, df, ticks) ==
    LET res == InsertLoop(tbl, sq, clk, df, ticks, 1)
    IN  IF res.ok THEN res ELSE [res EXCEPT !.rows = tbl, !.seq = sq]

\* A variant that reports success on a duplicate of a stored row.
insert_ignoring_duplicates(tbl, sq, clk, df, ticks) ==
    LET res == InsertLoop(tbl, sq, clk, df, ticks, 1)
    IN  IF res.ok THEN res
        ELSE [res EXCEPT !.ok = TRUE, !.kind = "Added", !.commit = TRUE]

insert_data_to_db(tbl, sq, clk, df, ticks) == InsertLoop(tbl, sq, clk, df, ticks, 1)

RECURSIVE SumTicks(_, _)
SumTicks(ticks, n) == IF n = 0 THEN 0 ELSE ticks[n] + SumTicks(ticks, n - 1)

\* The browser sessions, each run by a thread of its own on the one cached
\* connection, and a session that is not inside insert_data_to_db.
Sessions == {1, 2}
Idle == [pc |-> "idle", row |-> <<>>]
NoSessions == [s \in Sessions |-> Idle]

\* What the last operation was and what it returned.
NoLast ==
    [op |-> "init", ok |-> TRUE, kind |-> "", df |-> <<>>, written |-> 0,
     result |-> <<>>, name |-> "", id |-> 0, file |-> <<>>,
     missing |-> <<>>, available |-> <<>>]

\* A call of insert_data_to_db(conn, df) by handler op (for an import, of
\* the uploaded file).  The clock is read once for each row written, so
\* ticks has one entry for each of them.
CallInsert(op, df, file) ==
    /\ seq < MaxId
    /\ LET dry == insert_data_to_db(rows, seq, now, df, [i \in 1 .. Len(df) |-> 0])
       IN  \E ticks \in [1 .. dry.written -> {0, 1}] :
              /\ now + SumTicks(ticks, dry.written) <= MaxClock
              /\ LET res == insert_data_to_db(rows, seq, now, df, ticks)
                 IN  /\ rows' = res.rows
                     /\ seq' = res.seq
                     /\ now' = res.now
                     /\ cRows' = IF res.commit THEN res.rows ELSE cRows
                     /\ cSeq' = IF res.commit THEN res.seq ELSE cSeq
                     /\ assigned' = MaxOf({assigned} \cup {r.id : r \in res.rows \ rows})
                     /\ last' = [NoLast EXCEPT !.op = op, !.ok = res.ok,
                                               !.kind = res.kind, !.df = df,
                                               !.written = res.written,
                                               !.file = file]
                     /\ UNCHANGED <<schema, sessions>>

(***************************************************************************)
(* load_data_from_db, get_database_stats                                   *)
(***************************************************************************)
\* A variant for ORDER BY created_at ASC.
Earliest(tbl) == {r \in tbl : \A o \in tbl : r.created_at <= o.created_at}

\* The rows of tbl that ORDER BY created_at DESC may return first.
Latest(tbl) == {r \in tbl : \A o \in tbl : o.created_at <= r.created_at}

\* SELECT * FROM student_data ORDER BY created_at DESC: every order of the
\* rows that is descending in created_at (rows with equal timestamps come
\* in an order SQL leaves open).
RECURSIVE load_data_from_db(_)
load_data_from_db(tbl) ==
    IF tbl = {} THEN {<<>>}
    ELSE UNION {{<<r>> \o q : q \in load_data_from_db(tbl \ {r})} : r \in Latest(tbl)}

LoadData ==
    /\ \E q \in load_data_from_db(rows) :
         last' = [NoLast EXCEPT !.op = "load", !.result = q]
    /\ UNCHANGED <<rows, seq, cRows, cSeq, now, assigned, schema, sessions>>

get_database_stats(tbl) ==
    <<Cardinality(tbl), Cardinality({r.Name : r \in tbl}),
      Cardinality({r.Subject : r \in tbl}),
      Cardinality({r \in tbl : r.Course = "JEE"}),
      Cardinality({r \in tbl : r.Course = "NEET"}),
      MaxOf({r.created_at : r \in tbl})>>

Stats ==
    /\ last' = [NoLast EXCEPT !.op = "stats", !.result = get_database_stats(rows)]
    /\ UNCHANGED <<rows, seq, cRows, cSeq, now, assigned, schema, sessions>>

(***************************************************************************)
(* delete_student_data, delete by id, reset_entire_database                *)
(***************************************************************************)
\* A variant whose DELETE has lost its WHERE clause.
delete_every_student(tbl, name) == {}

\* DELETE FROM student_data WHERE Name = ?
delete_student_data(tbl, name) == {r \in tbl : r.Name # name}

\* The selectbox offers the names of the loaded rows.
DeleteStudent ==
    \E name \in {r.Name : r \in rows} :
       /\ rows' = delete_student_data(rows, name)
       /\ cRows' = rows'
       /\ cSeq' = seq
       /\ last' = [NoLast EXCEPT !.op = "deleteByName", !.name = name]
       /\ UNCHANGED <<seq, now, assigned, schema, sessions>>

\* A variant that blanks the record instead of deleting it.
blank_record(tbl, id) ==
    {IF r.id = id THEN [r EXCEPT !.Name = "", !.Subject = ""] ELSE r : r \in tbl}

\* DELETE FROM student_data WHERE id=?
delete_record(tbl, id) == {r \in tbl : r.id # id}

\* The selectbox offers the loaded rows, each led by its id.
DeleteRecord ==
    \E id \in {r.id : r \in rows} :
       /\ rows' = delete_record(rows, id)
       /\ cRows' = rows'
       /\ cSeq' = seq
       /\ last' = [NoLast EXCEPT !.op = "deleteById", !.id = id]
       /\ UNCHANGED <<seq, now, assigned, schema, sessions>>

\* A variant that leaves sqlite_sequence alone.
reset_keeping_sequence(tbl, sq) == [rows |-> {}, seq |-> sq]

\* DELETE FROM student_data; DELETE FROM sqlite_sequence WHERE name=...
reset_entire_database(tbl, sq) == [rows |-> {}, seq |-> 0]

\* The reset button is shown only while total_records > 0.
ResetDatabase ==
    /\ rows # {}
    /\ LET res == reset_entire_database(rows, seq)
       IN  /\ rows' = res.rows
           /\ seq' = res.seq
           /\ cRows' = res.rows
           /\ cSeq' = res.seq
    /\ assigned' = 0
    /\ last' = [NoLast EXCEPT !.op = "reset"]
    /\ UNCHANGED <<now, schema, sessions>>

\* The columns of CREATE TABLE student_data, in its order.
TableColumns ==
    <<"id", "Name", "Course", "Month", "Date", "Subject", "Topic", "Rank",
      "Percentage", "Marks", "Average_Marks", "Highest_Mark", "Exam_Type",
      "created_at">>

\* A row of a table without Course after ALTER TABLE ... ADD COLUMN Course
\* TEXT DEFAULT "JEE": the row as it was, read with that default.
WithCourse(r, course) ==
    [f \in DOMAIN r \cup {"Course"} |-> IF f = "Course" THEN course ELSE r[f]]

\* A variant that sets the course of every row whenever the store is opened.
init_database_overwriting(tbl, columns) ==
    [rows |-> {WithCourse(r, "JEE") : r \in tbl},
     schema |-> IF columns = <<>> THEN TableColumns
                ELSE IF "Course" \in {columns[i] : i \in 1 .. Len(columns)} THEN columns
                ELSE Append(columns, "Course")]

\* init_database on a file holding table tbl with these columns: CREATE
\* TABLE IF NOT EXISTS, then ADD COLUMN Course when PRAGMA table_info
\* does not list it.
init_database(tbl, columns) ==
    IF columns = <<>> THEN [rows |-> tbl, schema |-> TableColumns]
    ELSE IF "Course" \in {columns[i] : i \in 1 .. Len(columns)}
    THEN [rows |-> tbl, schema |-> columns]
    ELSE [rows |-> {WithCourse(r, "JEE") : r \in tbl},
          schema |-> Append(columns, "Course")]

\* The process ends and starts again: the cached connection is gone, its
\* open transaction with it, and init_database opens the file as committed.
Restart ==
    /\ LET res == init_database(cRows, schema)
       IN  /\ rows' = res.rows
           /\ cRows' = res.rows
           /\ schema' = res.schema
    /\ seq' = cSeq
    /\ last' = [NoLast EXCEPT !.op = "restart"]
    /\ sessions' = NoSessions
    /\ UNCHANGED <<cSeq, now, assigned>>

(***************************************************************************)
(* load_sample_data and the handlers that insert it                        *)
(***************************************************************************)
load_sample_data ==
    << DfRow("Asgar Hussain Sayyed", "JEE", "August", "03/08/2025", "PM",
             "Kinematics,Trigonometric Function", 15, Num(2700), 2700, 5805, 9600, "Weekly"),
       DfRow("Asgar Hussain Sayyed", "JEE", "August", "04/08/2025", "Math",
             "Quadratic Equation", 0, Num(0), 0, 1990, 4000, "DCT"),
       DfRow("Asgar Hussain Sayyed", "NEET", "August", "05/08/2025", "Chemistry",
             "Structure of autom", 0, Num(0), 0, 3344, 6000, "DCT"),
       DfRow("Asgar Hussain Sayyed", "JEE", "August", "05/08/2025", "Physics",
             "Kinematics", 51, Num(3200), 1900, 2967, 5100, "DCT"),
       DfRow("Asgar Hussain Sayyed", "NEET", "August", "09/08/2025", "Chemistry",
             "Organic Chemistry", 37, Num(7125), 5700, 6005, 8000, "DCT") >>

\* Both "load sample data" buttons are shown only when no record is loaded.
LoadSampleData ==
    /\ rows = {}
    /\ CallInsert("sample", load_sample_data, <<>>)

(***************************************************************************)
(* show_data_entry_form                                                    *)
(***************************************************************************)
\* What the form's widgets can hold when it is submitted.
FormNames == {"", "Tauseef"}
FormCourses == {"JEE", "NEET"}
FormSubjects == {"", "Math"}
FormMarks == {0, 3000}
FormHighest == {0, 6000}
FormPercentages == {5000}
FormMonth == CurrentMonth
FormDate == CurrentDate
FormTopic == ""
FormExamType == "DCT"

\* if name and course and subject and marks and highest_mark
FormComplete(name, course, subject, marks, high) ==
    name # "" /\ course # "" /\ subject # "" /\ marks # 0 /\ high # 0

\* if submitted: the form is submitted with these values in its widgets.
Submit(name, course, subject, marks, high, pct) ==
    IF FormComplete(name, course, subject, marks, high)
    THEN CallInsert("entry",
             <<DfRow(name, course, FormMonth, FormDate, subject, FormTopic,
                     0, Num(pct), marks, 0, high, FormExamType)>>,
             <<>>)
    ELSE /\ last' = [NoLast EXCEPT !.op = "entry", !.ok = FALSE,
                                   !.kind = "MissingRequiredField"]
         /\ UNCHANGED <<rows, seq, cRows, cSeq, now, assigned, schema, sessions>>

ManualEntry ==
    \E name \in FormNames, course \in FormCourses, subject \in FormSubjects,
       marks \in FormMarks, high \in FormHighest, pct \in FormPercentages :
       Submit(name, course, subject, marks, high, pct)

(***************************************************************************)
(* bulk_upload_csv                                                         *)
(*                                                                         *)
(* An uploaded file is [empty, decodes, parse]: whether it has 0 bytes,    *)
(* the encodings that decode it, and what pd.read_csv makes of it under    *)
(* each separator: a table [ok, columns, rows] of text cells, ok = FALSE   *)
(* when read_csv raises.  An empty cell "" is what pandas reads as NaN.    *)
(***************************************************************************)
encodings == <<"utf-8", "utf-8-sig", "latin-1", "cp1252">>
separators == <<",", ";", "\t">>
required_columns == <<"Name", "Subject", "Marks", "Highest_Mark">>

SeqToSet(q) == {q[i] : i \in 1 .. Len(q)}

NoTable == [ok |-> FALSE, columns |-> <<>>, rows |-> <<>>]
Table(columns, body) == [ok |-> TRUE, columns |-> columns, rows |-> body]

\* pd.read_csv(uploaded_file, encoding=encoding, sep=separator)
read_csv(blob, encoding, separator) ==
    IF encoding \in blob.decodes THEN blob.parse[separator] ELSE NoTable

\* The inner for loop over separators, from separator s on; df is the
\* table assigned so far (NoTable for None).  A read that raises leaves
\* df as it was; a read that does not is assigned to df, accepted or not.
RECURSIVE TrySeparators(_, _, _, _)
TrySeparators(blob, encoding, s, df) ==
    IF s > Len(separators) THEN df
    ELSE LET got == read_csv(blob, encoding, separators[s])
         IN  IF ~got.ok THEN TrySeparators(blob, encoding, s + 1, df)
             ELSE IF Len(got.columns) > 1 /\ Len(got.rows) > 0 THEN got
             ELSE TrySeparators(blob, encoding, s + 1, got)

\* The outer for loop over encodings, from encoding e on.
RECURSIVE TryEncodings(_, _, _)
TryEncodings(blob, e, df) ==
    IF e > Len(encodings) THEN df
    ELSE LET got == TrySeparators(blob, encodings[e], 1, df)
         IN  IF got.ok /\ Len(got.columns) > 1 THEN got
             ELSE TryEncodings(blob, e + 1, got)

DetectTable(blob) == TryEncodings(blob, 1, NoTable)

\* How many separators the inner loop reads the file with, from separator
\* s on: it stops after the first read it accepts.
RECURSIVE SeparatorsTried(_, _, _)
SeparatorsTried(blob, encoding, s) ==
    IF s > Len(separators) THEN 0
    ELSE LET got == read_csv(blob, encoding, separators[s])
         IN  IF got.ok /\ Len(got.columns) > 1 /\ Len(got.rows) > 0 THEN 1
             ELSE 1 + SeparatorsTried(blob, encoding, s + 1)

\* The calls of pd.read_csv the two loops make, in order, as pairs of
\* encoding and separator, from encoding e on.
RECURSIVE CombinationsTried(_, _, _)
CombinationsTried(blob, e, df) ==
    IF e > Len(encodings) THEN <<>>
    ELSE LET got == TrySeparators(blob, encodings[e], 1, df)
             here == [k \in 1 .. SeparatorsTried(blob, encodings[e], 1) |->
                         <<encodings[e], separators[k]>>]
         IN  IF got.ok /\ Len(got.columns) > 1 THEN here
             ELSE here \o CombinationsTried(blob, e + 1, got)

\* df.columns.str.strip()
StripName(c) ==
    CASE c = " Name" -> "Name"
      [] c = "Marks " -> "Marks"
      [] c = " Subject " -> "Subject"
      [] c = "Highest_Mark\t" -> "Highest_Mark"
      [] OTHER -> c

StripColumns(columns) == [i \in 1 .. Len(columns) |-> StripName(columns[i])]

\* A variant that reports every required column once one is missing.
MissingColumnsAll(columns) ==
    IF \A c \in SeqToSet(required_columns) : c \in SeqToSet(columns)
    THEN <<>> ELSE required_columns

\* [col for col in required_columns if col not in df.columns]
MissingColumns(columns) ==
    SelectSeq(required_columns, LAMBDA c : c \notin SeqToSet(columns))

\* The rows of a table as functions from column name to cell text.
Position(columns, c) == CHOOSE i \in 1 .. Len(columns) : columns[i] = c
Frame(columns, body) ==
    [i \in 1 .. Len(body) |->
        [c \in SeqToSet(columns) |-> body[i][Position(columns, c)]]]

\* The text cells pd.to_numeric reads as numbers, in hundredths.
NumText ==
    [x \in {"0", "30", "45", "60", "100", "0.0", "30.0", "50.0", "60.0"} |->
        CASE x = "0" -> 0 [] x = "30" -> 3000 [] x = "45" -> 4500
          [] x = "60" -> 6000 [] x = "100" -> 10000
          [] x = "0.0" -> 0 [] x = "30.0" -> 3000 [] x = "50.0" -> 5000
          [] x = "60.0" -> 6000]

isna(cell) == cell = ""
IsNumber(cell) == cell \in DOMAIN NumText

\* A variant that drops a row when any required column is empty.
DropRowsWithEmpty(frame) ==
    SelectSeq(frame, LAMBDA r : \A c \in SeqToSet(required_columns) : ~isna(r[c]))

\* df.dropna(subset=required_columns, how='all')
DropEmptyRows(frame) ==
    SelectSeq(frame, LAMBDA r : ~(\A c \in SeqToSet(required_columns) : isna(r[c])))

\* pd.to_numeric(errors='coerce') on Marks and Highest_Mark, then
\* dropna(subset=['Marks', 'Highest_Mark'])
DropInvalidRows(frame) ==
    SelectSeq(frame, LAMBDA r : IsNumber(r["Marks"]) /\ IsNumber(r["Highest_Mark"]))

\* 'col' not in df.columns or df['col'].isna().all()
AbsentOrAllNa(frame, col) ==
    \A i \in 1 .. Len(frame) : col \notin DOMAIN frame[i] \/ isna(frame[i][col])

Absent(frame, col) == \A i \in 1 .. Len(frame) : col \notin DOMAIN frame[i]

\* (df['Marks'] / df['Highest_Mark']) * 100, then fillna(''): 0/0 is NaN
\* and becomes '', x/0 is inf.  The marks of the model divide evenly.
ComputedPercentage(marks, high) ==
    IF high # 0 THEN Num((marks * 10000) \div high)
    ELSE IF marks = 0 THEN Text("")
    ELSE Inf

\* A Percentage cell left as read: a number, or after fillna('') the text.
KeptPercentage(cell) == IF IsNumber(cell) THEN Num(NumText[cell]) ELSE Text(cell)

\* pd.to_numeric(df[col], errors='coerce').fillna(0)
NumericOrZero(cell) == IF IsNumber(cell) THEN NumText[cell] ELSE 0

\* The defaults of lines 542-571 and the final fillna(''), for row r.
Normalize(frame, r) ==
    DfRow(r["Name"],
          IF AbsentOrAllNa(frame, "Course") THEN "JEE" ELSE r["Course"],
          IF AbsentOrAllNa(frame, "Month") THEN CurrentMonth ELSE r["Month"],
          IF AbsentOrAllNa(frame, "Date") THEN CurrentDate ELSE r["Date"],
          r["Subject"],
          IF Absent(frame, "Topic") THEN "" ELSE r["Topic"],
          IF Absent(frame, "Rank") THEN 0 ELSE NumericOrZero(r["Rank"]) \div 100,
          IF AbsentOrAllNa(frame, "Percentage")
             THEN ComputedPercentage(NumText[r["Marks"]], NumText[r["Highest_Mark"]])
             ELSE KeptPercentage(r["Percentage"]),
          NumText[r["Marks"]],
          IF Absent(frame, "Average_Marks") THEN 0 ELSE NumericOrZero(r["Average_Marks"]),
          NumText[r["Highest_Mark"]],
          IF AbsentOrAllNa(frame, "Exam_Type") THEN "DCT" ELSE r["Exam_Type"])

\* return False after st.error: the kind of failure reported and, for
\* missing columns, the two lists of the message.
Failure(kind) == [kind |-> kind, df |-> <<>>, missing |-> <<>>, available |-> <<>>]

\* Ready for insert_data_to_db.
Ready(df) == [kind |-> "", df |-> df, missing |-> <<>>, available |-> <<>>]

\* A variant without the second len(df) == 0 check.
PrepareCsvUnchecked(blob) ==
    IF blob.empty THEN Failure("UnparsableInput")
    ELSE LET t == DetectTable(blob) IN
    IF ~t.ok \/ Len(t.columns) <= 1 THEN Failure("UnparsableInput")
    ELSE LET columns == StripColumns(t.columns) IN
    IF MissingColumns(columns) # <<>>
    THEN [Failure("MissingRequiredColumns") EXCEPT
             !.missing = MissingColumns(columns), !.available = columns]
    ELSE LET filled == DropEmptyRows(Frame(columns, t.rows)) IN
    IF Len(filled) = 0 THEN Failure("NoValidRows")
    ELSE LET valid == DropInvalidRows(filled)
         IN  Ready([i \in 1 .. Len(valid) |-> Normalize(valid, valid[i])])

\* bulk_upload_csv up to the call of insert_data_to_db: the failure it
\* reports, or the DataFrame it hands over.
PrepareCsv(blob) ==
    IF blob.empty THEN Failure("UnparsableInput")
    ELSE LET t == DetectTable(blob) IN
    IF ~t.ok \/ Len(t.columns) <= 1 THEN Failure("UnparsableInput")
    ELSE LET columns == StripColumns(t.columns) IN
    IF MissingColumns(columns) # <<>>
    THEN [Failure("MissingRequiredColumns") EXCEPT
             !.missing = MissingColumns(columns), !.available = columns]
    ELSE LET filled == DropEmptyRows(Frame(columns, t.rows)) IN
    IF Len(filled) = 0 THEN Failure("NoValidRows")
    ELSE LET valid == DropInvalidRows(filled) IN
    IF Len(valid) = 0 THEN Failure("NoValidRows")
    ELSE Ready([i \in 1 .. Len(valid) |-> Normalize(valid, valid[i])])

(***************************************************************************)
(* The files the model uploads                                             *)
(***************************************************************************)
AllEncodings == SeqToSet(encodings)

\* A file of 0 bytes.
EmptyBlob ==
    [empty |-> TRUE, decodes |-> {}, parse |-> [s \in SeqToSet(separators) |-> NoTable]]

\* A file of blank lines only: read_csv raises EmptyDataError every time.
BlankBlob ==
    [empty |-> FALSE, decodes |-> AllEncodings,
     parse |-> [s \in SeqToSet(separators) |-> NoTable]]

\* A text file delimited by sep (one of the separators or another
\* character): read with sep it is the table, read with another separator
\* every line is one cell.
Delimited(decodes, sep, columns, body) ==
    [empty |-> FALSE, decodes |-> decodes,
     parse |-> [s \in SeqToSet(separators) |->
                  IF s = sep THEN Table(columns, body)
                  ELSE Table(<<"line">>, [i \in 1 .. Len(body) |-> <<"text">>])]]

\* Plain ASCII/UTF-8 text; Windows-1252 text with accented letters; bytes
\* that only Latin-1 decodes.
DecodeProfiles == {AllEncodings, {"latin-1", "cp1252"}, {"latin-1"}}

CsvRows ==
    { <<"Tauseef", "Math", "30", "60">>,
      <<"Jane Smith", "Math", "30", "60">> }

RECURSIVE SeqsUpTo(_, _)
SeqsUpTo(S, n) ==
    IF n = 0 THEN {<<>>}
    ELSE LET shorter == SeqsUpTo(S, n - 1)
         IN  shorter \cup {Append(q, x) : q \in {p \in shorter : Len(p) = n - 1}, x \in S}

\* Well-formed comma-separated UTF-8 files of up to MaxCsvRows data rows.
ContentBlobs ==
    {Delimited(AllEncodings, ",", required_columns, body) :
        body \in SeqsUpTo(CsvRows, MaxCsvRows)}

\* The rows of the files below: a valid row, a row whose marks are no
\* number, a row with nothing in the required columns.
ImportRows ==
    { <<"Jane Smith", "Math", "30", "60">>,
      <<"Tauseef", "Math", "abc", "60">>,
      <<"", "", "", "">> }

\* Headers with the required names padded with whitespace, and with one
\* of them in lower case.
PaddedColumns == <<" Name", " Subject ", "Marks ", "Highest_Mark\t">>
LowerCaseColumns == <<"name", "Subject", "Marks", "Highest_Mark">>

\* UTF-8 files under every delimiter, with and without the required
\* columns, semicolon-delimited files in the other encodings, and
\* comma-delimited files under the headers above.
FileShapes ==
    {<<AllEncodings, sep, columns>> :
        sep \in {",", ";", "\t", "|"},
        columns \in {required_columns, <<" Name", "Subject", "Score", "Total">>}}
    \cup {<<d, ";", required_columns>> : d \in DecodeProfiles}
    \cup {<<AllEncodings, ",", columns>> : columns \in {PaddedColumns, LowerCaseColumns}}

\* The files of the import: empty, blank, and of every shape with up to
\* MaxFileRows data rows.
ImportBlobs ==
    {EmptyBlob, BlankBlob} \cup
    {Delimited(f[1], f[2], f[3], body) :
        f \in FileShapes, body \in SeqsUpTo(ImportRows, MaxFileRows)}

\* Rows under the header Name, Subject, Marks, Highest_Mark, Course,
\* Percentage: all six cells filled; no name, course or percentage; no
\* subject, a highest mark of 0, a course and a percentage the program does
\* not know; marks and highest mark both 0.
OptionalColumns == required_columns \o <<"Course", "Percentage">>

OptionalRows ==
    { <<"Jane Smith", "Math", "30", "60", "NEET", "45">>,
      <<"", "Math", "30", "60", "", "">>,
      <<"Tauseef", "", "45", "0", "BSc", "abc">>,
      <<"Tauseef", "Math", "0", "0", "JEE", "60">> }

\* Comma-separated UTF-8 files of up to MaxOptRows of these rows, with the
\* two optional columns and without them.
OptionalBlobs ==
    {Delimited(AllEncodings, ",", OptionalColumns, body) :
        body \in SeqsUpTo(OptionalRows, MaxOptRows)}
    \cup {Delimited(AllEncodings, ",", required_columns,
                    [i \in 1 .. Len(body) |-> SubSeq(body[i], 1, 4)]) :
             body \in SeqsUpTo(OptionalRows, MaxOptRows)}

\* Rows under the required columns: valid; without a name; without marks;
\* with a highest mark that is no number; with nothing at all.
FilterRows ==
    { <<"Jane Smith", "Math", "30", "60">>,
      <<"", "Math", "30", "60">>,
      <<"Tauseef", "Math", "", "60">>,
      <<"Tauseef", "Math", "30", "abc">>,
      <<"", "", "", "">> }

\* Comma-separated UTF-8 files of up to MaxFilterRows of these rows.
FilterBlobs ==
    {Delimited(AllEncodings, ",", required_columns, body) :
        body \in SeqsUpTo(FilterRows, MaxFilterRows)}

\* PrepareCsv of every file of the model.
Prepared ==
    [blob \in ContentBlobs \cup ImportBlobs \cup OptionalBlobs \cup FilterBlobs |->
        PrepareCsv(blob)]

\* The upload button: bulk_upload_csv(conn, uploaded_file) for a file of blobs.
Upload(blobs) ==
    \E blob \in blobs :
       LET prep == Prepared[blob] IN
       IF prep.kind = ""
       THEN CallInsert("bulk", prep.df, blob)
       ELSE /\ last' = [NoLast EXCEPT !.op = "bulk", !.ok = FALSE,
                                      !.kind = prep.kind, !.file = blob,
                                      !.missing = prep.missing,
                                      !.available = prep.available]
            /\ UNCHANGED <<rows, seq, cRows, cSeq, now, assigned, schema, sessions>>

BulkUpload == Upload(ContentBlobs)

(***************************************************************************)
(* The export: df_all.to_csv(index=False), and the upload of that file     *)
(***************************************************************************)
\* The columns of SELECT * FROM student_data, in the order of the table.
ExportColumns == TableColumns

\* How to_csv writes a float of a REAL column (in hundredths): its repr.
FloatText ==
    [x \in {0, 3000, 5000, 6000} |->
        CASE x = 0 -> "0.0" [] x = 3000 -> "30.0" [] x = 5000 -> "50.0"
          [] x = 6000 -> "60.0"]

\* How to_csv writes a Percentage value: a float, inf, or the text stored.
PercentageText(p) ==
    CASE p.t = "num" -> FloatText[p.n]
      [] p.t = "inf" -> "inf"
      [] OTHER -> p.s

\* to_csv(index=False) of a loaded frame: the text cells of its data lines
\* (integers in decimal, text as it is, quoted where the text needs it).
to_csv(df) ==
    [i \in 1 .. Len(df) |->
        << ToString(df[i].id), df[i].Name, df[i].Course, df[i].Month, df[i].Date,
           df[i].Subject, df[i].Topic, ToString(df[i].Rank),
           PercentageText(df[i].Percentage), FloatText[df[i].Marks],
           FloatText[df[i].Average_Marks], FloatText[df[i].Highest_Mark],
           df[i].Exam_Type, ToString(df[i].created_at) >>]

\* The cell texts pd.read_csv reads as NaN by default (keep_default_na).
na_values ==
    {"", "#N/A", "#N/A N/A", "#NA", "-1.#IND", "-1.#QNAN", "-NaN", "-nan",
     "1.#IND", "1.#QNAN", "<NA>", "N/A", "NA", "NULL", "NaN", "n/a", "nan", "null"}

\* What pd.read_csv makes of a cell: NaN (the empty cell of the model) for
\* the texts above.
ReadCell(text) == IF text \in na_values THEN "" ELSE text

\* The downloaded file as an upload: what read_csv makes of it.
ExportedFile(df) ==
    Delimited(AllEncodings, ",", ExportColumns,
              [i \in 1 .. Len(df) |->
                  [j \in 1 .. Len(ExportColumns) |-> ReadCell(to_csv(df)[i][j])]])

\* "Download All Data as CSV" followed by the upload of the file as it was
\* downloaded; the export is offered while the store has records.
ReimportExport ==
    /\ rows # {}
    /\ \E df_all \in load_data_from_db(rows) :
         LET blob == ExportedFile(df_all)
             prep == PrepareCsv(blob)
         IN  IF prep.kind = ""
             THEN CallInsert("reimport", prep.df, blob)
             ELSE /\ last' = [NoLast EXCEPT !.op = "reimport", !.ok = FALSE,
                                            !.kind = prep.kind, !.file = blob,
                                            !.missing = prep.missing,
                                            !.available = prep.available]
                  /\ UNCHANGED <<rows, seq, cRows, cSeq, now, assigned, schema, sessions>>

\* The topics typed into the form: none, a chapter, and "N/A".
TypedTopics == {"", "Kinematics", "N/A"}

\* The form submitted with one of these topics and all else filled in.
EnterWithTopic ==
    \E topic \in TypedTopics :
       /\ FormComplete("Tauseef", "JEE", "Math", 3000, 6000)
       /\ CallInsert("entry",
              <<DfRow("Tauseef", "JEE", FormMonth, FormDate, "Math", topic,
                      0, Num(5000), 3000, 0, 6000, FormExamType)>>,
              <<>>)

ImportFile == Upload(ImportBlobs)

ImportOptional == Upload(OptionalBlobs)

ImportFiltered == Upload(FilterBlobs)

(***************************************************************************)
(* Numbers of the analytics                                                *)
(*                                                                         *)
(* A column value is a tagged record as above, with t = "nan" for NaN.     *)
(* A mean is [t, sum, n]: the number sum/n (sum in hundredths) for "num",  *)
(* NaN (nothing to average) or inf.  Arithmetic is exact.                  *)
(***************************************************************************)
NaN == [t |-> "nan", n |-> 0, s |-> ""]

\* pd.to_numeric(x, errors='coerce')
to_numeric(p) ==
    IF p.t = "text"
    THEN (IF IsNumber(p.s) THEN Num(NumText[p.s]) ELSE NaN)
    ELSE p

\* .fillna(0)
fillna0(p) == IF p.t = "nan" THEN Num(0) ELSE p

\* df[col] as the sequence of its values; a column of plain numbers is
\* tagged on the way.
Column(df, col) == [i \in 1 .. Len(df) |-> df[i][col]]
NumColumn(df, col) == [i \in 1 .. Len(df) |-> Num(df[i][col])]

RECURSIVE Total(_)
Total(q) == IF q = <<>> THEN 0 ELSE Head(q) + Total(Tail(q))

Numbers(col) == SelectSeq(col, LAMBDA p : p.t = "num")

\* Series.mean(): NaN is skipped, an empty series gives NaN.
mean(col) ==
    IF \A i \in 1 .. Len(col) : col[i].t = "nan" THEN [t |-> "nan", sum |-> 0, n |-> 0]
    ELSE IF \E i \in 1 .. Len(col) : col[i].t = "inf" THEN [t |-> "inf", sum |-> 0, n |-> 0]
    ELSE LET xs == Numbers(col)
         IN  [t |-> "num", sum |-> Total([i \in 1 .. Len(xs) |-> xs[i].n]), n |-> Len(xs)]

\* m >= k for a mean m and a number k in hundredths; false of NaN.
MeanGe(m, k) == m.t = "inf" \/ (m.t = "num" /\ m.sum >= k * m.n)

\* a > b and a >= b for two column values; false when either is NaN.
Gt(a, b) ==
    \/ a.t = "inf" /\ b.t = "num"
    \/ a.t = "num" /\ b.t = "num" /\ a.n > b.n
Ge(a, b) ==
    \/ a.t = "inf" /\ b.t \in {"num", "inf"}
    \/ a.t = "num" /\ b.t = "num" /\ a.n >= b.n

\* A variant of idxmax that returns the last of several maxima.
idxmaxLast(col) ==
    CHOOSE i \in 1 .. Len(col) :
        /\ col[i].t # "nan"
        /\ \A j \in 1 .. Len(col) : ~Gt(col[j], col[i])
        /\ \A j \in i + 1 .. Len(col) : Gt(col[i], col[j]) \/ col[j].t = "nan"

\* Series.idxmax() and idxmin(): the position of the first occurrence of
\* the maximum (minimum), NaN skipped.
idxmax(col) ==
    CHOOSE i \in 1 .. Len(col) :
        /\ col[i].t # "nan"
        /\ \A j \in 1 .. Len(col) : ~Gt(col[j], col[i])
        /\ \A j \in 1 .. i - 1 : Gt(col[i], col[j]) \/ col[j].t = "nan"

idxmin(col) ==
    CHOOSE i \in 1 .. Len(col) :
        /\ col[i].t # "nan"
        /\ \A j \in 1 .. Len(col) : ~Gt(col[i], col[j])
        /\ \A j \in 1 .. i - 1 : Gt(col[j], col[i]) \/ col[j].t = "nan"

\* Series.std() < 15: the sample standard deviation, NaN for fewer than two
\* numbers and for a series with inf, and NaN < 15 is false.  In
\* hundredths, std < 1500 is n*sum(x^2) - sum(x)^2 < 1500^2 * n * (n-1).
StdBelow15(col) ==
    LET xs == Numbers(col)
        n == Len(xs)
        sm == Total([i \in 1 .. n |-> xs[i].n])
        sq == Total([i \in 1 .. n |-> xs[i].n * xs[i].n])
    IN  /\ \A i \in 1 .. Len(col) : col[i].t # "inf"
        /\ n >= 2
        /\ n * sq - sm * sm < 2250000 * n * (n - 1)

(***************************************************************************)
(* The analytics dashboard: create_performance_overview, generate_insights *)
(*                                                                         *)
(* A frame df is a sequence of stored rows.  An insight is [kind, value]:  *)
(* which rule wrote it and which of its messages (or which subject or      *)
(* exam type the message names).                                           *)
(***************************************************************************)
Insight(kind, value) == [kind |-> kind, value |-> value]

\* len(df[df['Percentage'] >= k])
CountGe(df, k) ==
    Cardinality({i \in 1 .. Len(df) : Ge(df[i].Percentage, Num(k))})

\* The four metrics: average percentage, passed_exams/total_exams with
\* pass mark 35 (the division raises for an empty frame), best subject,
\* average rank over the rows with Rank > 0.
create_performance_overview(df) ==
    IF Len(df) = 0 THEN [raised |-> "ZeroDivisionError"]
    ELSE LET ranked == SelectSeq(df, LAMBDA r : r.Rank > 0)
         IN  [raised |-> "",
              avg_percentage |-> mean(Column(df, "Percentage")),
              total_exams |-> Len(df),
              passed_exams |-> CountGe(df, 3500),
              best_subject |-> df[idxmax(Column(df, "Percentage"))].Subject,
              best_score |-> df[idxmax(Column(df, "Percentage"))].Percentage,
              avg_rank |-> mean(NumColumn(ranked, "Rank"))]

\* A variant whose bands are tested from the lowest up.
BandLowFirst(m) ==
    IF MeanGe(m, 3500) THEN "average"
    ELSE IF MeanGe(m, 6000) THEN "good"
    ELSE IF MeanGe(m, 7500) THEN "excellent"
    ELSE "needs improvement"

\* if avg_perf >= 75 ... elif >= 60 ... elif >= 35 ... else
Band(m) ==
    IF MeanGe(m, 7500) THEN "excellent"
    ELSE IF MeanGe(m, 6000) THEN "good"
    ELSE IF MeanGe(m, 3500) THEN "average"
    ELSE "needs improvement"

\* The keys of df.groupby('Exam_Type'), which come sorted.
SortedExamTypes == <<"", "DCT", "Final", "Inhouse test", "Monthly", "Term", "Weekly">>

ExamTypeGroups(df) ==
    SelectSeq(SortedExamTypes, LAMBDA e : \E i \in 1 .. Len(df) : df[i].Exam_Type = e)

\* df.groupby('Exam_Type')['Percentage'].mean()
exam_type_avg(df) ==
    LET keys == ExamTypeGroups(df)
    IN  [k \in 1 .. Len(keys) |->
            mean(Column(SelectSeq(df, LAMBDA r : r.Exam_Type = keys[k]), "Percentage"))]

\* The first group whose mean no other group's mean exceeds.
BestExamType(df) ==
    LET keys == ExamTypeGroups(df)
        avg == exam_type_avg(df)
        MoreThan(a, b) ==
            \/ a.t = "inf" /\ b.t = "num"
            \/ a.t = "num" /\ b.t = "num" /\ a.sum * b.n > b.sum * a.n
    IN  keys[CHOOSE k \in 1 .. Len(keys) :
                /\ avg[k].t # "nan"
                /\ \A j \in 1 .. Len(keys) : ~MoreThan(avg[j], avg[k])
                /\ \A j \in 1 .. k - 1 : MoreThan(avg[k], avg[j]) \/ avg[j].t = "nan"]

\* A variant that counts marks equal to the class average as above it.
at_or_above_avg_count(df) ==
    Cardinality({i \in 1 .. Len(df) : df[i].Marks >= df[i].Average_Marks})

\* len(df[df['Marks'] > df['Average_Marks']])
above_avg_count(df) ==
    Cardinality({i \in 1 .. Len(df) : df[i].Marks > df[i].Average_Marks})

\* generate_insights(df) for a frame with rows.
generate_insights(df) ==
    LET pct == Column(df, "Percentage")
    IN  << Insight("band", Band(mean(pct))),
           Insight("best", df[idxmax(pct)].Subject),
           Insight("worst", df[idxmin(pct)].Subject) >>
        \o (IF Len(ExamTypeGroups(df)) > 1
            THEN <<Insight("format", BestExamType(df))>> ELSE <<>>)
        \o << Insight("consistency",
                      IF StdBelow15(pct) THEN "consistent" ELSE "variable"),
              Insight("standing",
                      IF 2 * above_avg_count(df) > Len(df) THEN "above" ELSE "below") >>

\* The "Data preprocessing" of the dashboard page: Percentage made numeric,
\* what is not a number made 0 (Marks, Average_Marks and Rank are numbers
\* in every stored row).
Preprocess(df) ==
    [i \in 1 .. Len(df) |->
        [df[i] EXCEPT !.Percentage = fillna0(to_numeric(df[i].Percentage))]]

\* The dashboard page for the student and the course chosen in the
\* sidebar; the course filter is offered when the student has records of
\* more than one course.
ShowDashboard ==
    /\ rows # {}
    /\ \E q \in load_data_from_db(rows) :
         LET df == Preprocess(q) IN
         \E student \in {r.Name : r \in rows} :
            LET of_student == SelectSeq(df, LAMBDA r : r.Name = student)
                courses == {of_student[i].Course : i \in 1 .. Len(of_student)}
            IN  \E selected \in {"All Courses"} \cup
                                (IF Cardinality(courses) > 1 THEN courses ELSE {}) :
                   LET df_filtered ==
                          IF selected = "All Courses" THEN of_student
                          ELSE SelectSeq(of_student, LAMBDA r : r.Course = selected)
                   IN  last' = [NoLast EXCEPT
                                  !.op = "dashboard", !.name = student,
                                  !.df = df_filtered,
                                  !.result =
                                     [overview |-> create_performance_overview(df_filtered),
                                      insights |-> generate_insights(df_filtered)]]
    /\ UNCHANGED <<rows, seq, cRows, cSeq, now, assigned, schema, sessions>>

(***************************************************************************)
(* The course analysis: create_course_performance_overview,                *)
(* create_course_comparison_chart, show_course_insights                    *)
(***************************************************************************)
OfCourse(df, course) == SelectSeq(df, LAMBDA r : r.Course = course)

\* pd.to_numeric(df['Percentage'], errors='coerce') on the whole column.
Coerced(df) ==
    [i \in 1 .. Len(df) |-> [df[i] EXCEPT !.Percentage = to_numeric(df[i].Percentage)]]

key_subjects(course) ==
    IF course = "JEE" THEN <<"Physics", "Chemistry", "Math">>
    ELSE <<"Physics", "Chemistry", "Biology">>

target_percentage(course) == IF course = "JEE" THEN 7500 ELSE 7000

pass_threshold(course) == IF course = "JEE" THEN 6000 ELSE 5000

\* The four metrics of one course, pass rate passed/len(course_df) among
\* them; a warning and nothing else when the course has no row.
create_course_performance_overview(df_all, course) ==
    LET course_df == Coerced(OfCourse(df_all, course))
        key_subjects_data ==
            SelectSeq(course_df, LAMBDA r : r.Subject \in SeqToSet(key_subjects(course)))
    IN  IF Len(course_df) = 0 THEN [shown |-> FALSE]
        ELSE [shown |-> TRUE,
              avg_percentage |-> mean(Column(course_df, "Percentage")),
              benchmark |-> target_percentage(course),
              key_avg |-> mean(Column(key_subjects_data, "Percentage")),
              total_students |-> Cardinality({course_df[i].Name : i \in 1 .. Len(course_df)}),
              total_exams |-> Len(course_df),
              pass_threshold |-> pass_threshold(course),
              passed |-> CountGe(course_df, pass_threshold(course))]

\* 'Rank': 'mean' of df.groupby('Course').agg: the mean of the Rank column
\* of the group, every row counted.
GroupMeanRank(group) == mean(NumColumn(group, "Rank"))

\* course_stats of create_course_comparison_chart, by course: one row of
\* means and counts for each value of the Course column of df.
create_course_comparison_chart(df) ==
    [course \in {df[i].Course : i \in 1 .. Len(df)} |->
        LET group == Coerced(OfCourse(df, course))
        IN  [Avg_Percentage |-> mean(Column(group, "Percentage")),
             Consistent |-> StdBelow15(Column(group, "Percentage")),
             Avg_Marks |-> mean(NumColumn(group, "Marks")),
             Avg_Class_Avg |-> mean(NumColumn(group, "Average_Marks")),
             Avg_Highest_Mark |-> mean(NumColumn(group, "Highest_Mark")),
             Avg_Rank |-> GroupMeanRank(group),
             Students |-> Cardinality({group[i].Name : i \in 1 .. Len(group)}),
             Total_Exams |-> Len(group)]]

\* pd.to_datetime(date, format='%d/%m/%Y', errors='coerce') as the number
\* YYYYMMDD, 0 for NaT (a string that is no such date).
Date_parsed(date) ==
    CASE date = "15/07/2025" -> 20250715
      [] date = "03/08/2025" -> 20250803
      [] date = "04/08/2025" -> 20250804
      [] date = "05/08/2025" -> 20250805
      [] date = "09/08/2025" -> 20250809
      [] date = "03/11/2026" -> 20261103
      [] OTHER -> 0

\* a sorts before b: NaT goes last.
DateBefore(a, b) ==
    LET x == Date_parsed(a.Date)
        y == Date_parsed(b.Date)
    IN  (x # 0 /\ y = 0) \/ (x # 0 /\ y # 0 /\ x < y)

\* df.sort_values('Date_parsed'): every order of the rows that is ascending
\* in the parsed date with NaT last (the default sort is not stable, so
\* rows of one date come in any order).
RECURSIVE sort_values(_)
sort_values(S) ==
    IF S = {} THEN {<<>>}
    ELSE UNION {{<<r>> \o q : q \in sort_values(S \ {r})} :
                   r \in {x \in S : \A o \in S : ~DateBefore(o, x)}}

\* A variant of head that returns one row fewer.
headShort(df, k) == SubSeq(df, 1, IF Len(df) < k THEN Len(df) - 1 ELSE k - 1)

\* DataFrame.head(k) and tail(k): the first and the last k rows, all rows
\* when there are fewer.
head(df, k) == SubSeq(df, 1, IF Len(df) < k THEN Len(df) ELSE k)
tail(df, k) == SubSeq(df, IF Len(df) < k THEN 1 ELSE Len(df) - k + 1, Len(df))

\* A variant whose limits of 5 are inclusive.
TrendInclusive(recent_avg, earlier_avg) ==
    IF recent_avg.t = "nan" \/ earlier_avg.t = "nan" THEN "stable"
    ELSE IF recent_avg.t = "inf" /\ earlier_avg.t = "inf" THEN "stable"
    ELSE IF recent_avg.t = "inf" THEN "improving"
    ELSE IF earlier_avg.t = "inf" THEN "declining"
    ELSE LET d == recent_avg.sum * earlier_avg.n - earlier_avg.sum * recent_avg.n
             five == 500 * recent_avg.n * earlier_avg.n
         IN  IF d >= five THEN "improving"
             ELSE IF d <= 0 - five THEN "declining"
             ELSE "stable"

\* trend = recent_avg - earlier_avg; if trend > 5 ... elif trend < -5 ...
\* else.  NaN (a mean of nothing, or inf - inf) compares false both times.
Trend(recent_avg, earlier_avg) ==
    IF recent_avg.t = "nan" \/ earlier_avg.t = "nan" THEN "stable"
    ELSE IF recent_avg.t = "inf" /\ earlier_avg.t = "inf" THEN "stable"
    ELSE IF recent_avg.t = "inf" THEN "improving"
    ELSE IF earlier_avg.t = "inf" THEN "declining"
    ELSE LET d == recent_avg.sum * earlier_avg.n - earlier_avg.sum * recent_avg.n
             five == 500 * recent_avg.n * earlier_avg.n
         IN  IF d > five THEN "improving"
             ELSE IF d < 0 - five THEN "declining"
             ELSE "stable"

\* show_course_insights(df, course) for a course with rows, course_df_sorted
\* being what sort_values made of them.
show_course_insights(df, course, course_df_sorted) ==
    LET course_df == OfCourse(df, course)
        key_subjects_in_data ==
            SelectSeq(key_subjects(course),
                      LAMBDA subj : \E i \in 1 .. Len(course_df) : course_df[i].Subject = subj)
        SubjectInsight(subj) ==
            LET subj_avg ==
                   mean(Column(SelectSeq(course_df, LAMBDA r : r.Subject = subj), "Percentage"))
            IN  Insight(IF MeanGe(subj_avg, target_percentage(course))
                        THEN "strong" ELSE "attention", subj)
        pct == Column(course_df, "Percentage")
    IN  [k \in 1 .. Len(key_subjects_in_data) |-> SubjectInsight(key_subjects_in_data[k])]
        \o << Insight("overall",
                      IF MeanGe(mean(pct), target_percentage(course))
                      THEN "ready" ELSE "improvement needed"),
              Insight("consistency",
                      IF StdBelow15(pct) THEN "consistent" ELSE "variable") >>
        \o (IF Len(course_df_sorted) >= 3
            THEN <<Insight("trend",
                           Trend(mean(Column(tail(course_df_sorted, 3), "Percentage")),
                                 mean(Column(head(course_df_sorted, 3), "Percentage"))))>>
            ELSE <<>>)

\* One of the two course analysis buttons was pressed: the overview of the
\* course and, when it has rows, the comparison chart (which makes the
\* numeric columns of df_all numeric) and then the insights.
ShowCourseAnalysis ==
    /\ rows # {}
    /\ \E course \in {"JEE", "NEET"} :
       \E df_all \in load_data_from_db(rows) :
          LET overview == create_course_performance_overview(df_all, course)
              numeric == Coerced(df_all)
          IN  \E course_df_sorted \in sort_values(SeqToSet(OfCourse(numeric, course))) :
                 last' = [NoLast EXCEPT
                            !.op = "course", !.name = course, !.df = df_all,
                            !.result =
                               [overview |-> overview,
                                course_stats |->
                                   IF overview.shown
                                   THEN create_course_comparison_chart(df_all)
                                   ELSE <<>>,
                                insights |->
                                   IF overview.shown
                                   THEN show_course_insights(numeric, course, course_df_sorted)
                                   ELSE <<>>]]
    /\ UNCHANGED <<rows, seq, cRows, cSeq, now, assigned, schema, sessions>>

(***************************************************************************)
(* Specification                                                           *)
(***************************************************************************)
Init ==
    /\ rows = {}
    /\ seq = 0
    /\ cRows = {}
    /\ cSeq = 0
    /\ now = 0
    /\ assigned = 0
    /\ last = NoLast
    /\ schema = TableColumns
    /\ sessions = NoSessions

Next ==
    \/ ManualEntry
    \/ LoadSampleData
    \/ BulkUpload
    \/ LoadData
    \/ Stats
    \/ DeleteStudent
    \/ DeleteRecord
    \/ ResetDatabase
    \/ Restart

Spec == Init /\ [][Next]_vars

\* The import alone, over the wider set of files.
NextImport ==
    \/ ImportFile
    \/ ResetDatabase

SpecImport == Init /\ [][NextImport]_vars

\* The import of files with optional columns.
NextOptional ==
    \/ ImportOptional
    \/ ResetDatabase

SpecOptional == Init /\ [][NextOptional]_vars

\* The import of files whose rows the two filters treat differently.
NextFiltered ==
    \/ ImportFiltered
    \/ ResetDatabase

SpecFiltered == Init /\ [][NextFiltered]_vars

\* Entries, deletions, and the export uploaded again.
NextRoundTrip ==
    \/ EnterWithTopic
    \/ DeleteRecord
    \/ ResetDatabase
    \/ ReimportExport

SpecRoundTrip == Init /\ [][NextRoundTrip]_vars

(***************************************************************************)
(* insert_data_to_db of a one-row frame, statement by statement, in two    *)
(* sessions at once                                                        *)
(***************************************************************************)
\* The rows the two sessions submit through the form.
SessionRows ==
    {DfRow("Tauseef", course, FormMonth, FormDate, "Math", FormTopic,
           0, Num(5000), 3000, 0, 6000, FormExamType) : course \in FormCourses}

\* Session s submits the form: cursor.execute(SELECT COUNT(*) ...),
\* fetchone, and the return on exists > 0.
CheckRow(s) ==
    /\ sessions[s].pc = "idle"
    /\ \E row \in SessionRows :
          IF RowExists(rows, row)
          THEN /\ last' = [NoLast EXCEPT !.op = "entry", !.ok = FALSE,
                                         !.kind = "DuplicateDetected",
                                         !.df = <<row>>, !.id = s]
               /\ UNCHANGED sessions
          ELSE /\ sessions' = [sessions EXCEPT ![s] = [pc |-> "checked", row |-> row]]
               /\ last' = [NoLast EXCEPT !.op = "check", !.df = <<row>>, !.id = s]
    /\ UNCHANGED <<rows, seq, cRows, cSeq, now, assigned, schema>>

\* cursor.execute(INSERT INTO student_data ...) with datetime.now().
WriteRow(s) ==
    /\ sessions[s].pc = "checked"
    /\ seq < MaxId
    /\ \E tick \in {0, 1} :
          /\ now + tick <= MaxClock
          /\ now' = now + tick
          /\ rows' = rows \cup {StoredRow(NextId(rows, seq), sessions[s].row, now + tick)}
    /\ seq' = NextId(rows, seq)
    /\ assigned' = MaxOf({assigned, NextId(rows, seq)})
    /\ sessions' = [sessions EXCEPT ![s].pc = "written"]
    /\ last' = [NoLast EXCEPT !.op = "write", !.df = <<sessions[s].row>>, !.id = s]
    /\ UNCHANGED <<cRows, cSeq, schema>>

\* conn.commit() and return True: the transaction of the one connection
\* is committed, whichever session wrote what is in it.
CommitRow(s) ==
    /\ sessions[s].pc = "written"
    /\ cRows' = rows
    /\ cSeq' = seq
    /\ sessions' = [sessions EXCEPT ![s] = Idle]
    /\ last' = [NoLast EXCEPT !.op = "entry", !.ok = TRUE, !.kind = "Added",
                              !.df = <<sessions[s].row>>, !.written = 1, !.id = s]
    /\ UNCHANGED <<rows, seq, now, assigned, schema>>

NextSessions ==
    \/ \E s \in Sessions : CheckRow(s)
    \/ \E s \in Sessions : WriteRow(s)
    \/ \E s \in Sessions : CommitRow(s)
    \/ ResetDatabase

SpecSessions == Init /\ [][NextSessions]_vars

(***************************************************************************)
(* Database files the program finds when it starts: none, one written by   *)
(* this version, and one written before the table had a Course column      *)
(***************************************************************************)
LegacyColumns == SelectSeq(TableColumns, LAMBDA c : c # "Course")

\* A row of such a table: every column of a stored row but Course.
LegacyRow(id, name, pct) ==
    LET r == StoredRow(id, DfRow(name, "", "August", "03/08/2025", "Math", "",
                                 0, Num(pct), 3000, 0, 6000, "DCT"), 0)
    IN  [f \in DOMAIN r \ {"Course"} |-> r[f]]

LegacyEntries == {<<name, 5000>> : name \in {"Tauseef", "Jane Smith"}}

\* Tables of 0 to MaxLegacyRows such rows, with ids 1, 2, ...
LegacyStores ==
    UNION {{{LegacyRow(i, f[i][1], f[i][2]) : i \in 1 .. k} : f \in [1 .. k -> LegacyEntries]} :
              k \in 0 .. MaxLegacyRows}

\* The file as it lies on disk before the program starts.
InitLegacy ==
    /\ schema \in {<<>>, LegacyColumns, TableColumns}
    /\ cRows \in (IF schema = LegacyColumns THEN LegacyStores ELSE {{}})
    /\ rows = cRows
    /\ seq = Cardinality(cRows)
    /\ cSeq = seq
    /\ now = 0
    /\ assigned = seq
    /\ last = NoLast
    /\ sessions = NoSessions

\* init_database has run: every query of the program names Course.
Opened == "Course" \in SeqToSet(schema)

NextLegacy ==
    \/ Restart
    \/ (Opened /\ ManualEntry)
    \/ (Opened /\ DeleteRecord)
    \/ (Opened /\ ResetDatabase)

SpecLegacy == InitLegacy /\ [][NextLegacy]_vars

(***************************************************************************)
(* The analytics, over stores of records entered one by one                *)
(***************************************************************************)
\* What one record of such a store was entered with (date "own": the date
\* of its place in the store, see DateAt).
BaseEntry ==
    [name |-> "Tauseef", course |-> "JEE", date |-> "own", subject |-> "Math",
     rank |-> 0, pct |-> Num(5000), marks |-> 3000, avg |-> 0, etype |-> "DCT"]

\* Entries that differ in rank and course; in percentage, on either side of
\* the pass mark of their course and of the general one; in percentage
\* (around the bands) and subject, with the exam type; in percentage and
\* date (their own or one that is no DD/MM/YYYY date); and in student and
\* percentage, as number, as text and as inf.
RankEntries ==
    {[BaseEntry EXCEPT !.rank = r, !.course = c] :
        r \in {0, 10, 20}, c \in {"JEE", "NEET"}}

PassEntries ==
    {[BaseEntry EXCEPT !.pct = Num(x), !.course = "JEE"] : x \in {3490, 3500, 5990, 6000}}
    \cup {[BaseEntry EXCEPT !.pct = Num(x), !.course = "NEET"] : x \in {4990, 5000}}

BandEntries ==
    {[BaseEntry EXCEPT !.pct = Num(x), !.subject = sb,
                       !.etype = IF sb = "Physics" THEN "Weekly" ELSE "DCT"] :
        x \in {3000, 3500, 6000, 7500}, sb \in {"Math", "Physics"}}

TrendEntries ==
    {[BaseEntry EXCEPT !.pct = Num(x)] : x \in {4000, 5500, 5600}}
    \cup {[BaseEntry EXCEPT !.pct = Num(4000), !.date = "2025-08-04"]}

OddEntries ==
    {[BaseEntry EXCEPT !.pct = x, !.name = nm] :
        x \in {Num(5000), Text(""), Inf}, nm \in {"Tauseef", "Jane Smith"}}

\* Entries that differ in the class average: below, at and above the marks.
StandingEntries ==
    {[BaseEntry EXCEPT !.avg = a] : a \in {2000, 3000, 4000}}

\* The topic of the i-th entry: no two entries of a store are duplicates.
TopicOf(i) == <<"Ch1", "Ch2", "Ch3", "Ch4", "Ch5", "Ch6">>[i]

\* The exam date of the i-th entry: the exams were not entered in the order
\* they were sat in.
DateAt(i) ==
    <<"05/08/2025", "03/08/2025", "09/08/2025", "15/07/2025", "04/08/2025",
      "03/11/2026">>[i]

\* The row stored for the i-th entry e, one clock tick after the one before.
EntryRow(i, e) ==
    StoredRow(i, DfRow(e.name, e.course, "August",
                       IF e.date = "own" THEN DateAt(i) ELSE e.date,
                       e.subject, TopicOf(i),
                       e.rank, e.pct, e.marks, e.avg, 10000, e.etype), i)

\* The stores that 1 to n entries out of E leave.
Stores(E, n) ==
    UNION {{{EntryRow(i, f[i]) : i \in 1 .. k} : f \in [1 .. k -> E]} : k \in 1 .. n}

AnalyticsStores ==
    Stores(RankEntries, MaxRecords) \cup Stores(PassEntries, MaxRecords)
    \cup Stores(BandEntries, MaxRecords) \cup Stores(TrendEntries, MaxTrendRecords)
    \cup Stores(OddEntries, MaxRecords) \cup Stores(StandingEntries, MaxRecords)

InitAnalytics ==
    /\ rows \in AnalyticsStores
    /\ cRows = rows
    /\ seq = Cardinality(rows)
    /\ cSeq = seq
    /\ now = seq
    /\ assigned = seq
    /\ last = NoLast
    /\ schema = TableColumns
    /\ sessions = NoSessions

NextAnalytics ==
    \/ ShowDashboard
    \/ ShowCourseAnalysis

SpecAnalytics == InitAnalytics /\ [][NextAnalytics]_vars

(***************************************************************************)
(* Properties                                                              *)
(***************************************************************************)
InsertOps == {"entry", "bulk", "sample"}

\* The step is a call of insert_data_to_db (the handler got as far as it).
InsertCalled == last'.op \in InsertOps /\ last'.df # <<>>

SameKey(r, row) == KeyOf(r) = KeyOf(row)

Unique(tbl) == \A r1, r2 \in tbl : SameKey(r1, r2) => r1 = r2

\* C1: in every reachable state no two stored records agree on all twelve
\* dedup-key fields, in what the connection sees and in what is committed.
C1_Uniqueness == Unique(rows) /\ Unique(cRows)

\* A duplicate was just refused while the store holds several records.
C1_Witness ==
    /\ last.op \in InsertOps
    /\ last.kind = "DuplicateDetected"
    /\ Cardinality(rows) >= 2

\* C2: inserting a single record whose key equals that of a stored record
\* returns DuplicateDetected and leaves the stored records as they were.
C2_DuplicateRefused ==
    [][(InsertCalled /\ Len(last'.df) = 1
          /\ \E r \in rows : SameKey(r, last'.df[1]))
       => (~last'.ok /\ last'.kind = "DuplicateDetected"
             /\ rows' = rows /\ cRows' = cRows)]_vars

\* A manual entry was refused as a duplicate.
C2_Witness ==
    /\ last.op = "entry"
    /\ last.kind = "DuplicateDetected"
    /\ Len(last.df) = 1
    /\ \E r \in rows : SameKey(r, last.df[1])

\* Position i of df collides: with a row of tbl or with an earlier position.
Collides(tbl, df, i) ==
    \/ \E r \in tbl : SameKey(r, df[i])
    \/ \E j \in 1 .. i - 1 : df[j] = df[i]

FirstCollision(tbl, df) ==
    CHOOSE k \in 1 .. Len(df) :
        Collides(tbl, df, k) /\ \A j \in 1 .. k - 1 : ~Collides(tbl, df, j)

\* C3: a batch whose first collision is at position k writes exactly its
\* first k-1 records, once each and in input order, writes nothing from
\* position k on, and reports failure.
C3_PartialBatch ==
    [][(InsertCalled /\ \E i \in 1 .. Len(last'.df) : Collides(rows, last'.df, i))
       => LET df == last'.df
              k == FirstCollision(rows, df)
              new == rows' \ rows
          IN  /\ ~last'.ok
              /\ last'.kind = "DuplicateDetected"
              /\ last'.written = k - 1
              /\ rows \subseteq rows'
              /\ Cardinality(new) = k - 1
              /\ \A i \in 1 .. k - 1 : \E r \in new : SameKey(r, df[i])
              /\ \A i, j \in 1 .. k - 1 :
                    \A r, o \in new :
                       (i < j /\ SameKey(r, df[i]) /\ SameKey(o, df[j])) => r.id < o.id]_vars

\* The batch [A, B, A]: two records written, failure at the third.
C3_Witness ==
    /\ last.op = "bulk"
    /\ ~last.ok
    /\ Len(last.df) = 3
    /\ last.written = 2
    /\ last.df[1] = last.df[3]
    /\ \A i \in 1 .. 2 : \E r \in rows : SameKey(r, last.df[i])

\* C4: a call of insert none of whose records collides succeeds, and a
\* query made right after it returns, for each record, exactly one row
\* equal to it in all twelve key fields, under an id the store did not
\* hold before.
C4_InsertThenQuery ==
    [][(InsertCalled /\ \A i \in 1 .. Len(last'.df) : ~Collides(rows, last'.df, i))
       => /\ last'.ok
          /\ \A q \in load_data_from_db(rows') :
                \A i \in 1 .. Len(last'.df) :
                   /\ Cardinality({j \in 1 .. Len(q) : KeyOf(q[j]) = last'.df[i]}) = 1
                   /\ \A j \in 1 .. Len(q) :
                         KeyOf(q[j]) = last'.df[i] => q[j].id \notin {r.id : r \in rows}]_vars

\* A manual entry was accepted into a store that already held a record.
C4_Witness ==
    /\ last.op = "entry"
    /\ last.ok
    /\ Cardinality(rows) >= 2
    /\ \E r \in rows : SameKey(r, last.df[1])

\* C5: a query returns every stored record exactly once, and of two
\* records with different timestamps the one created later comes first.
C5_QueryOrder ==
    last.op = "load" =>
        LET q == last.result
        IN  /\ Len(q) = Cardinality(rows)
            /\ SeqToSet(q) = rows
            /\ \A i, j \in 1 .. Len(q) :
                  (q[i].created_at # q[j].created_at /\ q[i].id > q[j].id) => i < j

\* A query returned records with different timestamps.
C5_Witness ==
    /\ last.op = "load"
    /\ Len(last.result) >= 2
    /\ last.result[1].created_at > last.result[Len(last.result)].created_at

\* C6: a reset leaves no record, in the connection and on file, and the
\* first record inserted while no id has been handed out since gets id 1.
C6_Reset ==
    [][/\ last'.op = "reset" => (rows' = {} /\ cRows' = {})
       /\ (assigned = 0 /\ InsertCalled /\ last'.written > 0)
             => \E r \in rows' \ rows : r.id = 1 /\ SameKey(r, last'.df[1])]_vars

\* A reset has just emptied a store that records had been written to.
C6_Witness == last.op = "reset" /\ rows = {} /\ assigned = 0 /\ now > 0

\* C7: no step changes a record it keeps: a row of the next state with the
\* id of a row of this state is that row.
C7_NeverUpdated ==
    [][\A r \in rows : \A o \in rows' : o.id = r.id => o = r]_vars

\* A record was deleted by id from among others, which stay.
C7_Witness == last.op = "deleteById" /\ rows # {}

\* C8: deleteByName removes the records of that name and nothing else,
\* deleteById the record of that id and nothing else, and both commit.
C8_DeleteExact ==
    [][/\ last'.op = "deleteByName" =>
            /\ rows' \subseteq rows
            /\ \A r \in rows : r \in rows' <=> r.Name # last'.name
            /\ cRows' = rows' /\ cSeq' = seq'
       /\ last'.op = "deleteById" =>
            /\ rows' \subseteq rows
            /\ \A r \in rows : r \in rows' <=> r.id # last'.id
            /\ cRows' = rows' /\ cSeq' = seq']_vars

\* One student's records were deleted and another's are still there.
C8_Witness ==
    /\ last.op = "deleteByName"
    /\ rows # {}
    /\ \A r \in rows : r.Name # last.name

FailureKinds == {"UnparsableInput", "MissingRequiredColumns", "NoValidRows"}

\* No encoding and separator make read_csv return n columns or more.
NoParseWithColumns(file, n) ==
    ~\E e \in SeqToSet(encodings), sp \in SeqToSet(separators) :
        LET t == read_csv(file, e, sp) IN t.ok /\ Len(t.columns) >= n

\* The table the import settles on lacks a required column, or has no
\* row whose Marks and Highest_Mark are both numbers.
NothingToImport(file) ==
    LET t == DetectTable(file)
        columns == StripColumns(t.columns)
    IN  \/ \E c \in SeqToSet(required_columns) : c \notin SeqToSet(columns)
        \/ ~\E i \in 1 .. Len(t.rows) :
              /\ IsNumber(t.rows[i][Position(columns, "Marks")])
              /\ IsNumber(t.rows[i][Position(columns, "Highest_Mark")])

StructuralFailure(file) ==
    file.empty \/ NoParseWithColumns(file, 2) \/ NothingToImport(file)

\* C9: an import of a file that is empty, cannot be parsed, lacks a
\* required column or keeps no row after validation returns a failure of
\* one of these kinds and leaves the store, pending and committed, as it was.
C9_FailedImportNoEffect ==
    [][(last'.op = "bulk" /\ StructuralFailure(last'.file))
       => /\ ~last'.ok
          /\ last'.kind \in FailureKinds
          /\ last'.file.empty => last'.kind = "UnparsableInput"
          /\ UNCHANGED <<rows, seq, cRows, cSeq>>]_vars

\* An import failed for want of valid rows while the store held a record.
C9_Witness ==
    /\ last.op = "bulk"
    /\ last.kind = "NoValidRows"
    /\ ~last.file.empty
    /\ rows # {}

\* No encoding and separator make read_csv return at least 2 columns and
\* at least 1 data row.
NoAcceptableParse(file) ==
    ~\E e \in SeqToSet(encodings), sp \in SeqToSet(separators) :
        LET t == read_csv(file, e, sp)
        IN  t.ok /\ Len(t.columns) >= 2 /\ Len(t.rows) >= 1

\* C10: an import of a file that no encoding and separator read as at
\* least 2 columns and 1 data row fails with UnparsableInput and with no
\* other kind.
C10_UnparsableKind ==
    (last.op = "bulk" /\ (last.file.empty \/ NoAcceptableParse(last.file)))
        => last.kind = "UnparsableInput"

\* The import read the file as a table of two columns or more, whose
\* trimmed header lacks the required names of Lacking.
Tabular(file) ==
    ~file.empty /\ DetectTable(file).ok /\ Len(DetectTable(file).columns) > 1

Lacking(file) ==
    {c \in SeqToSet(required_columns) :
        \A i \in 1 .. Len(DetectTable(file).columns) :
           StripName(DetectTable(file).columns[i]) # c}

\* C11: an import fails with MissingRequiredColumns exactly when the table
\* it read lacks, after trimming the header names, one of Name, Subject,
\* Marks, Highest_Mark in exactly that spelling; the failure then lists the
\* lacking names and the trimmed names of the header, and the store is as
\* it was.
C11_MissingColumns ==
    [][last'.op = "bulk" =>
         /\ last'.kind = "MissingRequiredColumns"
               <=> (Tabular(last'.file) /\ Lacking(last'.file) # {})
         /\ last'.kind = "MissingRequiredColumns" =>
               /\ ~last'.ok
               /\ SeqToSet(last'.missing) = Lacking(last'.file)
               /\ last'.available = StripColumns(DetectTable(last'.file).columns)
               /\ UNCHANGED <<rows, seq, cRows, cSeq>>]_vars

\* A header with name in lower case was refused for want of Name alone,
\* while the store held a record.
C11_Witness ==
    /\ last.op = "bulk"
    /\ last.kind = "MissingRequiredColumns"
    /\ last.missing = <<"Name">>
    /\ "name" \in SeqToSet(last.available)
    /\ rows # {}

\* A header padded with whitespace was accepted.
C11_WitnessPadded ==
    /\ last.op = "bulk"
    /\ last.ok
    /\ " Name" \in SeqToSet(DetectTable(last.file).columns)

\* C12: every record of the store has a non-empty student name and a
\* non-empty subject.
C12_NamedRecords == \A r \in rows : r.Name # "" /\ r.Subject # ""

\* C13: every record of the store has track JEE or NEET.
C13_KnownTrack == \A r \in rows : r.Course \in {"JEE", "NEET"}

\* The rows of a file that the import keeps, in file order.
KeptRows(file) ==
    LET t == DetectTable(file)
    IN  DropInvalidRows(DropEmptyRows(Frame(StripColumns(t.columns), t.rows)))

\* The percentage the data model gives a row: the supplied one when it is
\* a number, else marks/highest_mark*100, else 0 when highest_mark is 0.
PerRowPercentage(r) ==
    IF "Percentage" \in DOMAIN r /\ IsNumber(r["Percentage"])
    THEN Num(NumText[r["Percentage"]])
    ELSE IF NumText[r["Highest_Mark"]] > 0
    THEN Num((NumText[r["Marks"]] * 10000) \div NumText[r["Highest_Mark"]])
    ELSE Num(0)

\* C14: every record an import hands to insert carries a number as its
\* percentage: the one supplied in its row when that is a number, else the
\* one computed from its marks and highest mark, 0 when the highest mark
\* is 0.
C14_PercentagePerRow ==
    (last.op = "bulk" /\ last.df # <<>>) =>
        \A i \in 1 .. Len(last.df) :
           /\ last.df[i].Percentage.t = "num"
           /\ last.df[i].Percentage = PerRowPercentage(KeptRows(last.file)[i])

\* C15: a submitted entry is rejected with MissingRequiredField exactly
\* when its name or its subject is empty (the number widgets always supply
\* marks and a highest mark, which are 0 or more); every other entry, one
\* with marks 0 or highest mark 0 included, reaches insert; a rejected
\* entry leaves the store as it was.
C15_EntryValidation ==
    [][\A name \in FormNames, course \in FormCourses, subject \in FormSubjects,
          marks \in FormMarks, high \in FormHighest, pct \in FormPercentages :
          Submit(name, course, subject, marks, high, pct) =>
             /\ last'.kind = "MissingRequiredField" <=> (name = "" \/ subject = "")
             /\ (name # "" /\ subject # "") => last'.df # <<>>
             /\ last'.kind = "MissingRequiredField"
                   => UNCHANGED <<rows, seq, cRows, cSeq>>]_vars

\* Two means are the same number (or both NaN, or both inf).
SameMean(a, b) == a.t = b.t /\ (a.t = "num" => a.sum * b.n = b.sum * a.n)

\* The mean of the ranks above 0 of a frame; NaN when it has none.
PositiveRankMean(df) ==
    LET ranked == {i \in 1 .. Len(df) : df[i].Rank > 0}
        RECURSIVE Sum(_)
        Sum(S) == IF S = {} THEN 0
                  ELSE LET i == CHOOSE x \in S : TRUE IN df[i].Rank + Sum(S \ {i})
    IN  IF ranked = {} THEN [t |-> "nan", sum |-> 0, n |-> 0]
        ELSE [t |-> "num", sum |-> Sum(ranked), n |-> Cardinality(ranked)]

\* C16: the mean rank reported for a student's records, and the mean rank
\* of every course group of the course statistics, is the mean of the
\* ranks above 0 of that group.
C16_RankAwareMean ==
    /\ last.op = "dashboard" =>
          SameMean(last.result.overview.avg_rank, PositiveRankMean(last.df))
    /\ (last.op = "course" /\ last.result.overview.shown) =>
          \A c \in DOMAIN last.result.course_stats :
             SameMean(last.result.course_stats[c].Avg_Rank,
                      PositiveRankMean(OfCourse(last.df, c)))

\* The dashboard part of C16 alone.
C16_DashboardRank ==
    last.op = "dashboard" =>
        SameMean(last.result.overview.avg_rank, PositiveRankMean(last.df))

\* The number of rows of a frame whose percentage is a number (or inf) of
\* at least k hundredths.
Passing(df, k) ==
    Cardinality({i \in 1 .. Len(df) :
        LET p == to_numeric(df[i].Percentage)
        IN  p.t = "inf" \/ (p.t = "num" /\ p.n >= k)})

\* C17: the pass rate reported for a course is passed/total of the
\* course's records with pass mark 60 for JEE and 50 for NEET, the one
\* reported for a student's records is passed/total with pass mark 35, a
\* percentage equal to the pass mark passes, and for a group without
\* records the pass rate reported is 0 (0 passed) and nothing is raised.
C17_PassRate ==
    /\ last.op = "course" =>
          LET group == OfCourse(last.df, last.name)
              o == last.result.overview
          IN  /\ o.shown
              /\ o.total_exams = Len(group)
              /\ o.passed = Passing(group, IF last.name = "JEE" THEN 6000 ELSE 5000)
    /\ last.op = "dashboard" =>
          LET o == last.result.overview
          IN  /\ o.raised = ""
              /\ o.total_exams = Len(last.df)
              /\ o.passed_exams = Passing(last.df, 3500)

\* C17 for the groups that have records.
C17_PassRateOfRecords ==
    /\ (last.op = "course" /\ OfCourse(last.df, last.name) # <<>>) =>
          LET group == OfCourse(last.df, last.name)
              o == last.result.overview
          IN  /\ o.shown
              /\ o.total_exams = Len(group)
              /\ o.passed = Passing(group, IF last.name = "JEE" THEN 6000 ELSE 5000)
    /\ last.op = "dashboard" =>
          LET o == last.result.overview
          IN  /\ o.raised = ""
              /\ o.total_exams = Len(last.df)
              /\ o.passed_exams = Passing(last.df, 3500)

\* The sum of the percentages of a frame of numbers, in hundredths.
RECURSIVE PercentageSum(_)
PercentageSum(df) ==
    IF df = <<>> THEN 0 ELSE Head(df).Percentage.n + PercentageSum(Tail(df))

AllNumbers(df) == \A i \in 1 .. Len(df) : df[i].Percentage.t = "num"

\* The band of the mean percentage of a frame of n > 0 numbers.
BandOf(df) ==
    LET total == PercentageSum(df)
        n == Len(df)
    IN  CASE total >= 7500 * n -> "excellent"
          [] total < 7500 * n /\ total >= 6000 * n -> "good"
          [] total < 6000 * n /\ total >= 3500 * n -> "average"
          [] total < 3500 * n -> "needs improvement"

\* C18: the insights generated for a student's records hold exactly one
\* band insight, which is their first element, and it names the band of
\* the mean percentage m: excellent for m >= 75, good for 60 <= m < 75,
\* average for 35 <= m < 60, needs improvement below 35.
C18_OverallBand ==
    last.op = "dashboard" =>
        LET ins == last.result.insights
        IN  /\ Len(last.df) > 0
            /\ Cardinality({i \in 1 .. Len(ins) : ins[i].kind = "band"}) = 1
            /\ ins[1].kind = "band"
            /\ AllNumbers(last.df) => ins[1].value = BandOf(last.df)

\* Records of different percentages whose mean is exactly 60 were found good.
C18_Witness ==
    /\ last.op = "dashboard"
    /\ Len(last.df) >= 2
    /\ AllNumbers(last.df)
    /\ \E i, j \in 1 .. Len(last.df) : last.df[i].Percentage # last.df[j].Percentage
    /\ PercentageSum(last.df) = 6000 * Len(last.df)
    /\ last.result.insights[1] = Insight("band", "good")

\* The first place of a frame of numbers whose percentage none exceeds,
\* and the first whose percentage none falls below.
FirstHighest(df) ==
    CHOOSE i \in 1 .. Len(df) :
        /\ \A j \in 1 .. Len(df) : df[j].Percentage.n <= df[i].Percentage.n
        /\ \A j \in 1 .. i - 1 : df[j].Percentage.n < df[i].Percentage.n

FirstLowest(df) ==
    CHOOSE i \in 1 .. Len(df) :
        /\ \A j \in 1 .. Len(df) : df[j].Percentage.n >= df[i].Percentage.n
        /\ \A j \in 1 .. i - 1 : df[j].Percentage.n > df[i].Percentage.n

\* C19: the strongest subject of the insights (and the best subject of
\* the overview) is the subject of the first record, in the order of the
\* frame, whose percentage is the maximum, and the focus area the subject
\* of the first record whose percentage is the minimum.
C19_BestWorstSubject ==
    (last.op = "dashboard" /\ AllNumbers(last.df)) =>
        LET ins == last.result.insights
            df == last.df
        IN  /\ ins[2] = Insight("best", df[FirstHighest(df)].Subject)
            /\ ins[3] = Insight("worst", df[FirstLowest(df)].Subject)
            /\ last.result.overview.best_subject = df[FirstHighest(df)].Subject

\* Two records of different subjects tie for the maximum, and a third
\* record lies below them.
C19_Witness ==
    /\ last.op = "dashboard"
    /\ AllNumbers(last.df)
    /\ \E i, j, k \in 1 .. Len(last.df) :
          /\ i < j
          /\ last.df[i].Percentage = last.df[j].Percentage
          /\ last.df[i].Subject # last.df[j].Subject
          /\ last.df[k].Percentage.n < last.df[i].Percentage.n
          /\ \A m \in 1 .. Len(last.df) :
                last.df[m].Percentage.n <= last.df[i].Percentage.n
          /\ \A m \in 1 .. i - 1 : last.df[m].Percentage.n < last.df[i].Percentage.n
          /\ last.result.insights[2].value = last.df[i].Subject

\* The trend insights among the insights of a course.
TrendInsights(ins) == {i \in 1 .. Len(ins) : ins[i].kind = "trend"}

\* Every date of the frame is a DD/MM/YYYY date and every percentage a number.
Dated(df) ==
    \A i \in 1 .. Len(df) : Date_parsed(df[i].Date) # 0 /\ df[i].Percentage.t = "num"

\* The sets of three rows that can be the first three, and the last
\* three, of the rows of S in ascending order of date.
EarliestThree(S) ==
    {E \in SUBSET S :
        /\ Cardinality(E) = 3
        /\ \A e \in E, o \in S \ E : Date_parsed(e.Date) <= Date_parsed(o.Date)}

LatestThree(S) ==
    {L \in SUBSET S :
        /\ Cardinality(L) = 3
        /\ \A e \in L, o \in S \ L : Date_parsed(e.Date) >= Date_parsed(o.Date)}

RECURSIVE SumOfPercentages(_)
SumOfPercentages(S) ==
    IF S = {} THEN 0
    ELSE LET r == CHOOSE x \in S : TRUE IN r.Percentage.n + SumOfPercentages(S \ {r})

\* d > 5, d < -5 or neither, for d a third of the difference diff of two
\* sums of three percentages in hundredths.
TrendOf(diff) ==
    CASE diff > 1500 -> "improving"
      [] diff < 0 - 1500 -> "declining"
      [] diff >= 0 - 1500 /\ diff <= 1500 -> "stable"

\* C20: the insights of a course with fewer than 3 records hold no trend
\* insight, those of a course with 3 records or more exactly one; when the
\* dates are dates and the percentages numbers, it is improving, declining
\* or stable as d = mean of the latest 3 by date - mean of the earliest 3
\* by date is above 5, below -5 or neither.
C20_Trend ==
    (last.op = "course" /\ last.result.overview.shown) =>
        LET group == OfCourse(last.df, last.name)
            S == SeqToSet(group)
            ins == last.result.insights
        IN  /\ Len(group) < 3 => TrendInsights(ins) = {}
            /\ Len(group) >= 3 => Cardinality(TrendInsights(ins)) = 1
            /\ (Len(group) >= 3 /\ Dated(group)) =>
                  \E E \in EarliestThree(S), L \in LatestThree(S) :
                     \A i \in TrendInsights(ins) :
                        ins[i].value = TrendOf(SumOfPercentages(L) - SumOfPercentages(E))

\* Four exams entered out of date order, the last by date exactly 15 points
\* above the first by date (d = 5): stable.
C20_Witness ==
    /\ last.op = "course"
    /\ last.result.overview.shown
    /\ LET group == OfCourse(last.df, last.name)
           S == SeqToSet(group)
       IN  /\ Len(group) = 4
           /\ Dated(group)
           /\ \E a, b \in S :
                 /\ a.id < b.id /\ Date_parsed(a.Date) > Date_parsed(b.Date)
           /\ \E E \in EarliestThree(S), L \in LatestThree(S) :
                 SumOfPercentages(L) - SumOfPercentages(E) = 1500
           /\ \E i \in TrendInsights(last.result.insights) :
                 last.result.insights[i].value = "stable"

\* Four exams whose d is above 5: improving.
C20_WitnessImproving ==
    /\ last.op = "course"
    /\ last.result.overview.shown
    /\ Dated(OfCourse(last.df, last.name))
    /\ \E i \in TrendInsights(last.result.insights) :
          last.result.insights[i].value = "improving"

\* The rows of S whose date is a DD/MM/YYYY date.
WithDate(S) == {r \in S : Date_parsed(r.Date) # 0}

\* C21: records whose date is no DD/MM/YYYY date take no part in the trend:
\* a course with fewer than 3 records of parsable date gets no trend
\* insight, and with 3 or more of them the trend is that of the latest 3
\* and the earliest 3 among the records of parsable date.
C21_UnparsableExcluded ==
    (last.op = "course" /\ last.result.overview.shown) =>
        LET group == OfCourse(last.df, last.name)
            D == WithDate(SeqToSet(group))
            ins == last.result.insights
        IN  /\ Cardinality(D) < 3 => TrendInsights(ins) = {}
            /\ (Cardinality(D) >= 3 /\ AllNumbers(group)) =>
                  \E E \in EarliestThree(D), L \in LatestThree(D) :
                     \A i \in TrendInsights(ins) :
                        ins[i].value = TrendOf(SumOfPercentages(L) - SumOfPercentages(E))

\* The first part of C21 alone: the 3-record minimum counts records of
\* parsable date only.
C21_MinimumOfDated ==
    (last.op = "course" /\ last.result.overview.shown) =>
        (Cardinality(WithDate(SeqToSet(OfCourse(last.df, last.name)))) < 3
            => TrendInsights(last.result.insights) = {})

\* The second part of C21 alone: no record of unparsable date is in a window.
C21_WindowsOfDated ==
    (last.op = "course" /\ last.result.overview.shown) =>
        LET group == OfCourse(last.df, last.name)
            D == WithDate(SeqToSet(group))
        IN  (Cardinality(D) >= 3 /\ AllNumbers(group)) =>
               \E E \in EarliestThree(D), L \in LatestThree(D) :
                  \A i \in TrendInsights(last.result.insights) :
                     last.result.insights[i].value
                        = TrendOf(SumOfPercentages(L) - SumOfPercentages(E))

\* C30: the two trend windows come from one sorted sequence and may share
\* records: for a course with exactly 3 records the trend insight is
\* stable whatever the percentages and dates are, and for one with 4 or 5
\* records of parsable date and numeric percentage the trend is that of
\* an earliest-3 and a latest-3 window that have 6 - n records in common.
C30_OverlappingWindows ==
    (last.op = "course" /\ last.result.overview.shown) =>
        LET group == OfCourse(last.df, last.name)
            S == SeqToSet(group)
            n == Len(group)
            ins == last.result.insights
        IN  /\ n = 3 =>
                  /\ TrendInsights(ins) # {}
                  /\ \A i \in TrendInsights(ins) : ins[i].value = "stable"
            /\ (n \in 4 .. 5 /\ Dated(group)) =>
                  \E E \in EarliestThree(S), L \in LatestThree(S) :
                     /\ Cardinality(E \cap L) = 6 - n
                     /\ \A i \in TrendInsights(ins) :
                           ins[i].value = TrendOf(SumOfPercentages(L) - SumOfPercentages(E))

\* Three exams whose percentages rise by 16 points from the first by date
\* to the last by date were found stable.
C30_Witness ==
    /\ last.op = "course"
    /\ last.result.overview.shown
    /\ LET group == OfCourse(last.df, last.name)
       IN  /\ Len(group) = 3
           /\ Dated(group)
           /\ \E a, b \in SeqToSet(group) :
                 /\ \A o \in SeqToSet(group) :
                       /\ Date_parsed(a.Date) <= Date_parsed(o.Date)
                       /\ Date_parsed(o.Date) <= Date_parsed(b.Date)
                 /\ b.Percentage.n - a.Percentage.n = 1600
           /\ \E i \in TrendInsights(last.result.insights) :
                 last.result.insights[i].value = "stable"

\* Four exams, two of them in both windows, were found declining.
C30_WitnessFour ==
    /\ last.op = "course"
    /\ last.result.overview.shown
    /\ Len(OfCourse(last.df, last.name)) = 4
    /\ Dated(OfCourse(last.df, last.name))
    /\ \E i \in TrendInsights(last.result.insights) :
          last.result.insights[i].value = "declining"

\* The standing insights among the insights of a student.
StandingInsights(ins) == {i \in 1 .. Len(ins) : ins[i].kind = "standing"}

\* The number of records of a frame whose marks exceed the class average.
AboveClass(df) ==
    Cardinality({r \in SeqToSet(df) : r.Marks - r.Average_Marks > 0})

\* C27: the insights of a student hold exactly one standing insight; with
\* c records whose marks are strictly above their class average out of n,
\* it says above class average when c > n/2 and below otherwise, c = n/2
\* included.
C27_ClassStanding ==
    last.op = "dashboard" =>
        LET ins == last.result.insights
            c == AboveClass(last.df)
            n == Len(last.df)
        IN  /\ Cardinality(StandingInsights(ins)) = 1
            /\ \A i \in StandingInsights(ins) :
                  /\ 2 * c > n => ins[i].value = "above"
                  /\ 2 * c <= n => ins[i].value = "below"

\* Two records, one of them above its class average: below.
C27_Witness ==
    /\ last.op = "dashboard"
    /\ Len(last.df) = 2
    /\ AboveClass(last.df) = 1
    /\ \E i \in StandingInsights(last.result.insights) :
          last.result.insights[i].value = "below"

\* Three records, two of them above their class average: above.
C27_WitnessAbove ==
    /\ last.op = "dashboard"
    /\ Len(last.df) = 3
    /\ AboveClass(last.df) = 2
    /\ \E i \in StandingInsights(last.result.insights) :
          last.result.insights[i].value = "above"

\* C24: when a call of insert has stopped at a duplicate after writing
\* records, those records are committed when the call returns: each of
\* them is in the database file, not only in the connection's open
\* transaction.
C24_PrefixCommitted ==
    (last.op \in InsertOps /\ last.kind = "DuplicateDetected" /\ last.written > 0) =>
        \A i \in 1 .. last.written : \E r \in cRows : SameKey(r, last.df[i])

\* The loss that follows: after a restart every record a call of insert
\* reported as written before its duplicate is still in the store.
C24_PrefixSurvivesRestart ==
    [][(last.op \in InsertOps /\ last.kind = "DuplicateDetected" /\ last'.op = "restart")
       => \A i \in 1 .. last.written : \E r \in rows' : SameKey(r, last.df[i])]_vars

\* C29: every record a call of insert writes gets an id above every id
\* handed out since the table was created or last reset, whether or not
\* the records that held those ids are still stored; and a single record
\* equal to no stored record (one deleted before included) is accepted.
C29_IdsNeverReused ==
    [][InsertCalled =>
         /\ \A r \in rows' \ rows : r.id > assigned
         /\ (Len(last'.df) = 1 /\ ~\E r \in rows : SameKey(r, last'.df[1]))
               => (last'.ok /\ \E r \in rows' \ rows : SameKey(r, last'.df[1]))]_vars

\* What holds of the ids: a new id is above the sequence the connection
\* sees and above every stored id, and a delete leaves the sequence alone.
C29_AboveSequence ==
    [][/\ InsertCalled => \A r \in rows' \ rows : r.id > seq /\ \A o \in rows : r.id > o.id
       /\ last'.op \in {"deleteById", "deleteByName"} => seq' = seq
       /\ (InsertCalled /\ Len(last'.df) = 1 /\ ~\E r \in rows : SameKey(r, last'.df[1]))
             => last'.ok]_vars

\* The twelve combinations, encodings outermost: 1 is UTF-8 with comma,
\* 2 UTF-8 with semicolon, 4 UTF-8-BOM with comma, 12 Windows-1252 with tab.
Combination(k) == <<encodings[((k - 1) \div 3) + 1], separators[((k - 1) % 3) + 1]>>

\* Combination k reads the file as more than one column and at least one
\* data row.
Yields(file, k) ==
    LET t == read_csv(file, Combination(k)[1], Combination(k)[2])
    IN  t.ok /\ Len(t.columns) > 1 /\ Len(t.rows) > 0

\* C25: an import that gets past parsing read the file with the
\* combinations in the order UTF-8, UTF-8-BOM, Latin-1, Windows-1252
\* (outer) by comma, semicolon, tab (inner) up to the first one that
\* yields more than one column and at least one data row and with none
\* after it, and the table it goes on with is what that combination read.
C25_FirstCombination ==
    (last.op = "bulk" /\ ~last.file.empty /\ last.kind # "UnparsableInput") =>
        \E k \in 1 .. 12 :
           /\ Yields(last.file, k)
           /\ \A j \in 1 .. k - 1 : ~Yields(last.file, j)
           /\ CombinationsTried(last.file, 1, NoTable) = [j \in 1 .. k |-> Combination(j)]
           /\ DetectTable(last.file)
                 = read_csv(last.file, Combination(k)[1], Combination(k)[2])

\* C25 for the files that some combination reads as more than one column
\* and at least one data row.
C25_FirstOfThoseThatYield ==
    (last.op = "bulk" /\ \E k \in 1 .. 12 : Yields(last.file, k)) =>
        \E k \in 1 .. 12 :
           /\ Yields(last.file, k)
           /\ \A j \in 1 .. k - 1 : ~Yields(last.file, j)
           /\ CombinationsTried(last.file, 1, NoTable) = [j \in 1 .. k |-> Combination(j)]
           /\ DetectTable(last.file)
                 = read_csv(last.file, Combination(k)[1], Combination(k)[2])
           /\ last.kind # "UnparsableInput"

\* The data rows of a file, as read, whose Marks and Highest_Mark cells
\* are both numbers.
NumericRows(file) ==
    LET t == DetectTable(file)
        columns == StripColumns(t.columns)
    IN  SelectSeq(t.rows, LAMBDA row :
            /\ IsNumber(row[Position(columns, "Marks")])
            /\ IsNumber(row[Position(columns, "Highest_Mark")]))

\* C26: of a file read as a table with the required columns, the rows
\* handed to insert are exactly those whose marks and highest mark both
\* parse as numbers, in file order and with their other cells as read (a
\* row lacking only its name is among them); when there is no such row
\* the import fails with NoValidRows and insert is not called.
C26_RowFilter ==
    (last.op = "bulk" /\ Tabular(last.file) /\ Lacking(last.file) = {}) =>
        LET kept == NumericRows(last.file)
            columns == StripColumns(DetectTable(last.file).columns)
        IN  /\ kept = <<>> =>
                  (~last.ok /\ last.kind = "NoValidRows" /\ last.df = <<>>
                     /\ last.written = 0)
            /\ kept # <<>> =>
                  /\ last.kind \in {"Added", "DuplicateDetected"}
                  /\ Len(last.df) = Len(kept)
                  /\ \A i \in 1 .. Len(kept) :
                        /\ last.df[i].Name = kept[i][Position(columns, "Name")]
                        /\ last.df[i].Subject = kept[i][Position(columns, "Subject")]
                        /\ last.df[i].Marks = NumText[kept[i][Position(columns, "Marks")]]
                        /\ last.df[i].Highest_Mark
                              = NumText[kept[i][Position(columns, "Highest_Mark")]]

\* A file of a row without a name and a row without marks: the first was
\* handed to insert and written, the second was not.
C26_Witness ==
    /\ last.op = "bulk"
    /\ last.ok
    /\ Len(DetectTable(last.file).rows) = 2
    /\ DetectTable(last.file).rows[1][1] = ""
    /\ DetectTable(last.file).rows[2][3] = ""
    /\ Len(last.df) = 1
    /\ last.df[1].Name = ""
    /\ \E r \in rows : SameKey(r, last.df[1])

\* A file of rows that lack marks or a numeric highest mark, none of them
\* empty throughout, failed with NoValidRows while the store held a record.
C26_WitnessNoValidRows ==
    /\ last.op = "bulk"
    /\ last.kind = "NoValidRows"
    /\ Len(DetectTable(last.file).rows) = 2
    /\ \A i \in 1 .. 2 : DetectTable(last.file).rows[i][2] = "Math"
    /\ rows # {}

\* C22: uploading the export of the full record set, unmodified, adds no
\* record: the store holds exactly the records it held, in what the
\* connection sees and in what is committed, and the import reports
\* DuplicateDetected.
C22_RoundTrip ==
    [][last'.op = "reimport" =>
          /\ rows' = rows
          /\ cRows' = cRows
          /\ ~last'.ok
          /\ last'.kind = "DuplicateDetected"]_vars

\* C22 for the stores none of whose text fields is one of the texts
\* read_csv takes for a missing value.
C22_RoundTripOfOrdinaryText ==
    [][(last'.op = "reimport" /\ \A r \in rows : r.Topic \notin na_values \ {""}) =>
          /\ rows' = rows
          /\ cRows' = cRows
          /\ ~last'.ok
          /\ last'.kind = "DuplicateDetected"]_vars

\* An export of two records, one without a topic, was uploaded and refused.
C22_WitnessRefused ==
    /\ last.op = "reimport"
    /\ last.kind = "DuplicateDetected"
    /\ Cardinality(rows) = 2
    /\ \E r \in rows : r.Topic = ""

\* C23: opening a store whose table lacks the Course column adds the
\* column and leaves every record that was there as it was, now with
\* Course JEE, and no other record; opening a store whose table has the
\* column, a second time included, changes neither the columns nor any
\* committed record.
C23_InitIdempotent ==
    [][last'.op = "restart" =>
         /\ (schema # <<>> /\ "Course" \notin SeqToSet(schema)) =>
               /\ SeqToSet(schema') = SeqToSet(schema) \cup {"Course"}
               /\ Len(schema') = Len(schema) + 1
               /\ Cardinality(cRows') = Cardinality(cRows)
               /\ \A r \in cRows : \E o \in cRows' :
                     /\ o.Course = "JEE"
                     /\ \A f \in DOMAIN r : o[f] = r[f]
               /\ rows' = cRows'
         /\ "Course" \in SeqToSet(schema) =>
               /\ schema' = schema
               /\ cRows' = cRows
               /\ rows' = cRows
         /\ schema = <<>> => (schema' = TableColumns /\ cRows' = {} /\ rows' = {})]_vars

\* A table of two records without Course has just been opened: both are
\* JEE records now and Course is its last column.
C23_Witness ==
    /\ last.op = "restart"
    /\ schema = Append(LegacyColumns, "Course")
    /\ Cardinality(rows) = 2
    /\ \A r \in rows : r.Course = "JEE"
    /\ cRows = rows

\* A migrated store that has since got a NEET record was opened again.
C23_WitnessAgain ==
    /\ last.op = "restart"
    /\ schema = Append(LegacyColumns, "Course")
    /\ \E r \in rows : r.Course = "NEET"
    /\ \E r \in rows : r.Course = "JEE" /\ r.Month = "August"

\* C28: with the inserts of two sessions followed statement by statement
\* on the one connection, the store never holds more than one copy of a
\* record: no two stored records agree on all twelve key fields.
C28_AtMostOneCopy ==
    \A r \in rows : Cardinality({o \in rows : SameKey(o, r)}) = 1

\* Both sessions have passed the existence check with the same record and
\* neither has written yet.
C28_BothChecked ==
    /\ \A s \in Sessions : sessions[s].pc = "checked"
    /\ sessions[1].row = sessions[2].row

====
